---- MODULE Spec2Model ----
(***************************************************************************)
(* djes: a chainable, lazily evaluated search result set (SQS) over an     *)
(* Elasticsearch query builder (Query).                                    *)
(*                                                                         *)
(* Python values are encoded as follows.  None is the empty tuple and a    *)
(* value v that may be None is carried as <<v>>.  A dict is a function     *)
(* from key strings to values, a list is a tuple.  A string that the code  *)
(* takes apart is the tuple of its parts: the filter key "price__gte" is   *)
(* <<"price", "gte">> (key.split("__")), the sort field "-price" is        *)
(* <<"-", "price">> (field.startswith("-"), field[1:]).                    *)
(***************************************************************************)
EXTENDS Integers, Sequences, FiniteSets, TLC

(***************************************************************************)
(* Bounds of the model.                                                    *)
(***************************************************************************)
MaxDocs == 2
MaxFacades == 2
MaxIters == 1
MaxIndex == 2
MaxOps == 6
(* the number of calls made on one Query by the specifications of the builder *)
MaxCalls == 3
(* the number of calls made by the specification of the executions *)
MaxRun == 5
(* update_index: the rows of a table, the batch size, the pool's workers *)
MaxRows == 3
MaxBatch == 2
MaxWorkers == 2

(* conf.SIZE_PER_QUERY, the fetch window; the conf module is not part of   *)
(* the sources, the model uses a small window.                             *)
SIZE_PER_QUERY == 1

(* conf.DEFAULT_FILTER, read by SQS.filter.                                *)
DEFAULT_FILTER == "AND"

None == <<>>
Some(v) == <<v>>
IsNone(o) == o = <<>>
Val(o) == o[1]

EmptyDict == [k \in {} |-> 0]
(* dict.update: the keys of b override those of a *)
Update(a, b) == [k \in (DOMAIN a) \cup (DOMAIN b) |-> IF k \in DOMAIN b THEN b[k] ELSE a[k]]
(* d[key] = val *)
SetKey(d, key, val) == Update(d, key :> val)

Min(a, b) == IF a < b THEN a ELSE b
Max(a, b) == IF a > b THEN a ELSE b

(* Python s[a:b] for 0 <= a, 0 <= b on a list s (0-based, clamped) *)
PySlice(s, a, b) == SubSeq(s, Min(a, Len(s)) + 1, Min(b, Len(s)))
(* Python s[a:b] = t, the slice assignment *)
PySliceAssign(s, a, b, t) ==
    SubSeq(s, 1, Min(a, Len(s))) \o t \o SubSeq(s, Max(Min(b, Len(s)), Min(a, Len(s))) + 1, Len(s))
InSeq(x, s) == \E i \in 1..Len(s) : s[i] = x
(* list.index(x): the 0-based position of the first x; only used when x is in s *)
PyIndex(s, x) == (CHOOSE i \in 1..Len(s) : s[i] = x /\ \A j \in 1..(i - 1) : s[j] # x) - 1

(***************************************************************************)
(* Query (src/djes/query.py)                                               *)
(***************************************************************************)
QueryInit ==
    [search_terms |-> None, filter_and_terms |-> None, filter_or_terms |-> None,
     params |-> EmptyDict, function_score |-> None, facets |-> None, sort |-> None,
     raw_query |-> None, raw_params |-> None, offset |-> 0, size |-> 20,
     mlt_query |-> FALSE, mlt_doc |-> None, mlt_fields |-> <<>>, mlt_options |-> EmptyDict,
     results |-> None, hit_count |-> None, facet_counts |-> None, suggestions |-> None]

(* A value passed in a filter criterion: a scalar or a list (type(val) == list). *)
Scalar(v) == [scalar |-> v]
List(l) == [list |-> l]
IsList(val) == "list" \in DOMAIN val

(* One criterion (key, val) of add_filter_and / add_filter_or; "ValueError" when *)
(* key.split("__") has more than two parts and cannot be unpacked.              *)
FilterQuery_no_range(key, val) ==
    IF key = <<"ids">> THEN Some("ids" :> ("values" :> val))
    ELSE IF Len(key) > 2 THEN None
    ELSE LET field == key[1]
             operator == IF Len(key) > 1 THEN Some(key[2]) ELSE None
             filter_type == IF operator = Some("in") \/ IsList(val) THEN "terms" ELSE "term"
         IN Some(filter_type :> (field :> val))
FilterQuery(key, val) ==
    IF key = <<"ids">> THEN Some("ids" :> ("values" :> val))
    ELSE IF Len(key) > 2 THEN None
    ELSE LET field == key[1]
             operator == IF Len(key) > 1 THEN Some(key[2]) ELSE None
         IN IF operator \in {Some("gt"), Some("gte"), Some("lt"), Some("lte")}
            THEN Some("range" :> (field :> (Val(operator) :> val)))
            ELSE LET filter_type == IF operator = Some("in") \/ IsList(val) THEN "terms" ELSE "term"
                 IN Some(filter_type :> (field :> val))

add_filter_and(q, key, val) ==
    LET base == IF IsNone(q.filter_and_terms) THEN "must" :> <<>> ELSE Val(q.filter_and_terms)
        fq == FilterQuery(key, val)
    IN IF IsNone(fq) THEN [q EXCEPT !.filter_and_terms = Some(base)]
       ELSE [q EXCEPT !.filter_and_terms = Some("must" :> Append(base["must"], Val(fq)))]

add_filter_or(q, key, val) ==
    LET base == IF IsNone(q.filter_or_terms) THEN "should" :> <<>> ELSE Val(q.filter_or_terms)
        fq == FilterQuery(key, val)
    IN IF IsNone(fq) THEN [q EXCEPT !.filter_or_terms = Some(base)]
       ELSE [q EXCEPT !.filter_or_terms = Some("should" :> Append(base["should"], Val(fq)))]

add_search_query(q, content, search_fields) ==
    IF ~IsNone(search_fields)
    THEN [q EXCEPT !.search_terms =
             Some("multi_match" :> [query |-> content, fields |-> Val(search_fields), lenient |-> TRUE])]
    ELSE [q EXCEPT !.search_terms = Some("match" :> ("_all" :> content))]

add_fields(q, fields) == [q EXCEPT !.params = SetKey(@, "fields", fields)]

add_suggestion(q, suggest_text, suggest_field, suggest_mode, suggest_size) ==
    [q EXCEPT !.params = Update(@, [suggest_text |-> suggest_text, suggest_field |-> suggest_field,
                                    suggest_mode |-> suggest_mode, suggest_size |-> suggest_size])]

(* kwargs: the extra options of the terms facet, a dict *)
add_term_facet(q, field, kwargs) ==
    LET facets == field :> ("terms" :> Update("field" :> field, kwargs))
    IN IF IsNone(q.facets) THEN [q EXCEPT !.facets = Some(facets)]
       ELSE [q EXCEPT !.facets = Some(Update(Val(q.facets), facets))]

(* one criterion (key, val); the operator is only tested against "in" *)
add_term_facet_filter(q, field, key, val) ==
    LET q1 == IF IsNone(q.facets) \/ field \notin DOMAIN Val(q.facets)
              THEN add_term_facet(q, field, EmptyDict) ELSE q
        facet == Val(q1.facets)[field]
        operator == IF Len(key) > 1 THEN Some(key[2]) ELSE None
        filter_type == IF operator = Some("in") \/ IsList(val) THEN "terms" ELSE "term"
        old == IF "facet_filter" \in DOMAIN facet THEN facet["facet_filter"]["and"] ELSE <<>>
        entry == filter_type :> (key[1] :> val)
    IN IF Len(key) > 2 THEN q1
       ELSE [q1 EXCEPT !.facets =
                Some(SetKey(Val(q1.facets), field,
                            SetKey(facet, "facet_filter", "and" :> Append(old, entry))))]

add_function_score(q, fs) == [q EXCEPT !.function_score = Some(fs)]

(* {field[1:]: "desc"} for "-field", the bare field otherwise *)
SortEntry_keep_prefix(field) ==
    IF Head(field) = "-" THEN [dict |-> (field :> "desc")] ELSE [str |-> field]
SortEntry(field) == IF Head(field) = "-" THEN [dict |-> (Tail(field) :> "desc")] ELSE [str |-> field]
add_sort(q, args) == [q EXCEPT !.sort = Some([i \in 1..Len(args) |-> SortEntry(args[i])])]

add_raw_query(q, rq) == [q EXCEPT !.raw_query = Some(rq)]
add_raw_params(q, rp) == [q EXCEPT !.raw_params = Some(rp)]

mlt(q, docid, fields, kwargs) ==
    [q EXCEPT !.mlt_query = TRUE, !.mlt_doc = Some(docid), !.mlt_fields = fields, !.mlt_options = kwargs]

BuildOk(body) == [body |-> body]
BuildErr(e) == [error |-> e]
IsErr(b) == "error" \in DOMAIN b

(* The steps of build_query on the body built so far. *)
with_search(q, body) ==
    IF ~IsNone(q.search_terms) THEN SetKey(body, "query", Val(q.search_terms)) ELSE body
bool_filter_or_only(q, must) ==
    IF ~IsNone(q.filter_or_terms) THEN Val(q.filter_or_terms) ELSE must
bool_filter(q, must) ==
    IF ~IsNone(q.filter_or_terms) THEN Update(must, Val(q.filter_or_terms)) ELSE must
with_filter(q, body) ==
    IF ~IsNone(q.filter_and_terms) \/ ~IsNone(q.filter_or_terms)
    THEN Update(body, "filter" :> ("bool" :>
            bool_filter(q, IF ~IsNone(q.filter_and_terms)
                           THEN Update(EmptyDict, Val(q.filter_and_terms)) ELSE EmptyDict)))
    ELSE body
with_facets(q, body) ==
    IF ~IsNone(q.facets) THEN Update(body, "facets" :> Update(EmptyDict, Val(q.facets))) ELSE body
with_sort(q, body) ==
    IF ~IsNone(q.sort) THEN SetKey(body, "sort", Val(q.sort)) ELSE body
with_raw_params(q, body) ==
    IF ~IsNone(q.raw_params) THEN Update(body, Val(q.raw_params)) ELSE body

(* build_query: query['query'] on {"function_score": ...} raises KeyError *)
build_query_merged(q) ==
    IF ~IsNone(q.raw_query) THEN BuildOk(with_raw_params(q, Val(q.raw_query)))
    ELSE IF ~IsNone(q.function_score) THEN BuildErr("KeyError")
    ELSE BuildOk(with_raw_params(q, with_sort(q, with_facets(q, with_filter(q,
                    with_search(q, "query" :> ("match_all" :> EmptyDict)))))))
build_query(q) ==
    IF ~IsNone(q.raw_query) THEN BuildOk(Val(q.raw_query))
    ELSE IF ~IsNone(q.function_score) THEN BuildErr("KeyError")
    ELSE BuildOk(with_raw_params(q, with_sort(q, with_facets(q, with_filter(q,
                    with_search(q, "query" :> ("match_all" :> EmptyDict)))))))

(***************************************************************************)
(* build_query statement by statement, on objects.  The attributes of the  *)
(* Query that hold a dict or a list are objects named by the attribute;    *)
(* the dicts build_query creates are objects named "$...".  heap.obj gives *)
(* the entries an object holds by value, heap.ref the entries of a dict    *)
(* that refer to another object (d[key] = x stores a reference to x, and   *)
(* d.update(x) copies the entries of x, references as references).  A      *)
(* write reaches whatever object its target resolves to.                   *)
(***************************************************************************)
Attrs == {"search_terms", "filter_and_terms", "filter_or_terms", "facets", "sort",
          "raw_params", "raw_query", "function_score"}
Heap(q) ==
    [obj |-> [a \in {x \in Attrs : ~IsNone(q[x])} |-> Val(q[a])],
     ref |-> [a \in {x \in Attrs : ~IsNone(q[x])} |-> EmptyDict]]

DropKeys(d, keys) == [k \in (DOMAIN d) \ keys |-> d[k]]
(* a new dict: its entries by value, and its entries that are other objects *)
alloc(h, a, byval, byref) == [obj |-> (a :> byval) @@ h.obj, ref |-> (a :> byref) @@ h.ref]
(* d[key] = the object at target *)
setitem(h, d, key, target) ==
    [obj |-> [h.obj EXCEPT ![d] = DropKeys(@, {key})],
     ref |-> [h.ref EXCEPT ![d] = SetKey(@, key, target)]]
(* d.update(other) *)
dict_update(h, d, other) ==
    [obj |-> [h.obj EXCEPT ![d] = Update(DropKeys(@, DOMAIN h.ref[other]), h.obj[other])],
     ref |-> [h.ref EXCEPT ![d] = Update(DropKeys(@, DOMAIN h.obj[other]), h.ref[other])]]
(* d[k1][k2]...: the object the path leads to, or KeyError *)
RECURSIVE getitems(_, _, _)
getitems(h, d, path) ==
    IF path = <<>> THEN [at |-> d]
    ELSE IF Head(path) \in DOMAIN h.ref[d] THEN getitems(h, h.ref[d][Head(path)], Tail(path))
    ELSE [error |-> "KeyError"]
(* the value of an object, the objects it refers to included *)
RECURSIVE Deref(_, _)
Deref(h, a) ==
    IF DOMAIN h.ref[a] = {} THEN h.obj[a]
    ELSE [k \in (DOMAIN h.obj[a]) \cup (DOMAIN h.ref[a]) |->
             IF k \in DOMAIN h.ref[a] THEN Deref(h, h.ref[a][k]) ELSE h.obj[a][k]]

(* query = {"function_score": {"query": {"match_all": {}}}} *)
new_function_score(h) ==
    alloc(alloc(alloc(h, "$match_all", "match_all" :> EmptyDict, EmptyDict),
                "$function_score", EmptyDict, "query" :> "$match_all"),
          "$query", EmptyDict, "function_score" :> "$function_score")
(* query = {"query": {"match_all": {}}} *)
new_query(h) ==
    alloc(alloc(h, "$match_all", "match_all" :> EmptyDict, EmptyDict),
          "$query", EmptyDict, "query" :> "$match_all")
(* filter_query = {"filter": {"bool": {}}}; facet_query = {"facets": {}} *)
new_filter_and_facet(h) ==
    alloc(alloc(alloc(alloc(alloc(h, "$bool", EmptyDict, EmptyDict),
                            "$filter", EmptyDict, "bool" :> "$bool"),
                      "$filter_query", EmptyDict, "filter" :> "$filter"),
                "$facets", EmptyDict, EmptyDict),
          "$facet_query", EmptyDict, "facets" :> "$facets")

(* the statements from "filter_query = ..." on; local is the object the *)
(* name query is bound to                                              *)
run_search(q, h, local) ==
    IF ~IsNone(q.search_terms) THEN setitem(h, local, "query", "search_terms") ELSE h
(* filter_query['filter']['bool'] = self.filter_and_terms: the dict of the *)
(* Query itself instead of a copy of its entries                            *)
run_filter_and_shared(q, h) ==
    IF ~IsNone(q.filter_and_terms)
    THEN setitem(h, getitems(h, "$filter_query", <<"filter">>).at, "bool", "filter_and_terms") ELSE h
run_filter_and(q, h) ==
    IF ~IsNone(q.filter_and_terms)
    THEN dict_update(h, getitems(h, "$filter_query", <<"filter", "bool">>).at, "filter_and_terms") ELSE h
run_filter_or(q, h) ==
    IF ~IsNone(q.filter_or_terms)
    THEN dict_update(h, getitems(h, "$filter_query", <<"filter", "bool">>).at, "filter_or_terms") ELSE h
run_filter(q, h, local) ==
    IF (~IsNone(q.filter_and_terms) /\ DOMAIN Val(q.filter_and_terms) # {})
       \/ (~IsNone(q.filter_or_terms) /\ DOMAIN Val(q.filter_or_terms) # {})
    THEN dict_update(h, local, "$filter_query") ELSE h
run_facets(q, h, local) ==
    IF ~IsNone(q.facets)
    THEN dict_update(dict_update(h, getitems(h, "$facet_query", <<"facets">>).at, "facets"),
                     local, "$facet_query")
    ELSE h
run_sort(q, h, local) == IF ~IsNone(q.sort) THEN setitem(h, local, "sort", "sort") ELSE h
run_raw_params(q, h, local) == IF ~IsNone(q.raw_params) THEN dict_update(h, local, "raw_params") ELSE h
run_rest(q, h, local) ==
    [heap |-> run_raw_params(q, run_sort(q, run_facets(q, run_filter(q, run_filter_or(q,
                 run_filter_and(q, run_search(q, new_filter_and_facet(h), local))), local), local),
                 local), local),
     ret |-> [at |-> local]]

run_function_score_rest(q, h) ==
    IF "error" \in DOMAIN getitems(h, "$query", <<"query", "function_score", "query", "filtered">>)
    THEN [heap |-> h, ret |-> getitems(h, "$query", <<"query", "function_score", "query", "filtered">>)]
    ELSE run_rest(q, h, getitems(h, "$query", <<"query", "function_score", "query", "filtered">>).at)

(* the function-score branch after query = {...}:                          *)
(* query['query']['function_score'].update(self.function_score), then     *)
(* query = query['query']['function_score']['query']['filtered']          *)
run_function_score(q, h) ==
    IF "error" \in DOMAIN getitems(h, "$query", <<"query", "function_score">>)
    THEN [heap |-> h, ret |-> getitems(h, "$query", <<"query", "function_score">>)]
    ELSE run_function_score_rest(q,
            dict_update(h, getitems(h, "$query", <<"query", "function_score">>).at, "function_score"))

(* build_query on the objects: the heap it leaves and the object it returns, *)
(* or the exception                                                          *)
build_query_run(q) ==
    IF ~IsNone(q.raw_query) THEN [heap |-> Heap(q), ret |-> [at |-> "raw_query"]]
    ELSE IF ~IsNone(q.function_score) THEN run_function_score(q, new_function_score(Heap(q)))
    ELSE run_rest(q, new_query(Heap(q)), "$query")

(* what build_query returns: the value of the object, or the exception *)
build_query_value(r) ==
    IF "error" \in DOMAIN r.ret THEN BuildErr(r.ret.error) ELSE BuildOk(Deref(r.heap, r.ret.at))

reset_query_limits(q) ==
    [q EXCEPT !.results = None, !.hit_count = None, !.facet_counts = None, !.suggestions = None,
              !.offset = 0, !.size = 20]
reset_query(q) == [q EXCEPT !.results = None, !.hit_count = None, !.facet_counts = None, !.suggestions = None]

set_limits_bound(q, start, bound) == [q EXCEPT !.offset = start, !.size = bound]
set_limits(q, start, bound) == [q EXCEPT !.offset = start, !.size = bound - start]

has_run(q) == ~IsNone(q.results) /\ ~IsNone(q.hit_count)

(***************************************************************************)
(* The backend (the Elasticsearch client the code calls).  The index holds *)
(* the documents 1..n, ranked by id.  A body whose query is match_all and  *)
(* that has no filter matches every document, a search for the text "zzz"  *)
(* matches none, any other body matches the documents 2..n.  The           *)
(* more-like-this endpoint leaves the seed out.                            *)
(***************************************************************************)
RECURSIVE SelectDocs(_, _, _)
SelectDocs(lo, hi, skip) ==
    IF lo > hi THEN <<>>
    ELSE IF lo = skip THEN SelectDocs(lo + 1, hi, skip)
    ELSE <<lo>> \o SelectDocs(lo + 1, hi, skip)

MatchesAll(body) ==
    /\ "filter" \notin DOMAIN body
    /\ "query" \in DOMAIN body
    /\ "match_all" \in DOMAIN body["query"]

MatchesNone(body) ==
    /\ "query" \in DOMAIN body
    /\ "match" \in DOMAIN body["query"]
    /\ body["query"]["match"]["_all"] = "zzz"

BackendDocs(n, endpoint, body, seed) ==
    IF MatchesNone(body) THEN <<>>
    ELSE SelectDocs(IF MatchesAll(body) THEN 1 ELSE 2, n, IF endpoint = "mlt" THEN seed ELSE 0)

Hit(d, projected) ==
    IF projected
    THEN [id |-> d, type |-> "item", score |-> d, fields |-> ("title" :> d)]
    ELSE [id |-> d, type |-> "item", score |-> d, source |-> ("title" :> d) @@ ("url" :> d)]

(* The response to one request: the hits of the window and the total. *)
Response(docs, body, from, size, params) ==
    [hits |-> [i \in 1..Len(PySlice(docs, from, from + size)) |->
                 Hit(PySlice(docs, from, from + size)[i], "fields" \in DOMAIN params)],
     total |-> Len(docs),
     facets |-> IF "facets" \in DOMAIN body
                THEN [f \in DOMAIN body["facets"] |-> "terms" :> <<[term |-> "a", count |-> Len(docs)]>>]
                ELSE EmptyDict,
     suggest |-> IF "suggest_text" \in DOMAIN params
                 THEN Some(params["suggest_field"] :>
                             <<[text |-> params["suggest_text"], options |-> <<>>]>>)
                 ELSE None]

BackendResponse(n, endpoint, body, seed, from, size, params) ==
    Response(BackendDocs(n, endpoint, body, seed), body, from, size, params)

process_facets(facet_result) ==
    [f \in DOMAIN facet_result |->
        [i \in 1..Len(facet_result[f]["terms"]) |->
            <<facet_result[f]["terms"][i].term, facet_result[f]["terms"][i].count>>]]

(* suggestion_result: None or <<dict>>; the result is None or <<dict>> *)
process_suggestions_last_option(q, suggestion_result) ==
    IF IsNone(suggestion_result) THEN None
    ELSE LET raw == Val(suggestion_result)[q.params["suggest_field"]]
             texts == {raw[i].text : i \in 1..Len(raw)}
             last(t) == CHOOSE i \in 1..Len(raw) : raw[i].text = t /\ \A j \in (i + 1)..Len(raw) : raw[j].text # t
         IN Some([t \in texts |->
                    IF Len(raw[last(t)].options) > 0
                    THEN Some(raw[last(t)].options[Len(raw[last(t)].options)].text) ELSE None])
process_suggestions(q, suggestion_result) ==
    IF IsNone(suggestion_result) THEN None
    ELSE LET raw == Val(suggestion_result)[q.params["suggest_field"]]
             texts == {raw[i].text : i \in 1..Len(raw)}
             last(t) == CHOOSE i \in 1..Len(raw) : raw[i].text = t /\ \A j \in (i + 1)..Len(raw) : raw[j].text # t
         IN Some([t \in texts |->
                    IF Len(raw[last(t)].options) > 0 THEN Some(raw[last(t)].options[1].text) ELSE None])

(***************************************************************************)
(* update_index (src/djes/management/commands/update_index.py) on the      *)
(* ContentIndex (src/djes/indexes.py).                                     *)
(***************************************************************************)
doc_types == <<"item", "spread">>

(* a row of a table: its primary key and the field named by active_field *)
Row(pk, published) == [pk |-> pk, published |-> published]
Published(row) == row.published

(* item_queryset keeps the published rows, spread_queryset every row; no   *)
(* date range is given                                                     *)
queryset(doctype, table) == IF doctype = "item" THEN SelectSeq(table, Published) ELSE table

(* for start in range(0, total, batch_size): end = min(start + batch_size, total) *)
batch_end_unclamped(start, batch_size, total) == start + batch_size
batch_end(start, batch_size, total) == Min(start + batch_size, total)
batches(total, batch_size) ==
    [i \in 1..((total + batch_size - 1) \div batch_size) |->
        <<(i - 1) * batch_size, batch_end((i - 1) * batch_size, batch_size, total)>>]

(* The run of the command: the options; the number of document types whose *)
(* loop body has been entered; the batches of the current type that are    *)
(* still to be run; the batch each process runs (0 is the command's own    *)
(* process, 1.. are the pool's workers) and the number of its rows done;   *)
(* the (start, end) do_update has been called with; the index and remove   *)
(* calls made, by document type and primary key.                           *)
Processes == 0..MaxWorkers
DEFAULT_BATCH_SIZE == 1000
(* the options as handle reads them when none is given, before any batch *)
NoIndexer ==
    [table |-> <<>>, batch_size |-> DEFAULT_BATCH_SIZE, workers |-> 0, remove |-> FALSE,
     started |-> 0, ghetto_queue |-> <<>>,
     busy |-> [w \in Processes |-> None],
     handed |-> [d \in 1..Len(doc_types) |-> <<>>],
     calls |-> [d \in 1..Len(doc_types) |-> [pk \in 1..MaxRows |-> [index |-> 0, remove |-> 0]]]]

(***************************************************************************)
(* State.                                                                  *)
(*   query    the Query objects, by identity                               *)
(*   sqs      the SQS facades: the Query each refers to, _result_cache,    *)
(*            _result_count, and two history flags                         *)
(*   iters    the iterators obtained from __iter__                         *)
(*   last     the backend requests the last call issued, what it raised,   *)
(*            the window [start, bound) of a subscript that issued one,    *)
(*            whether it requested a slot that was filled, whether the     *)
(*            cache held no None inside the window, and for some           *)
(*            calls the call itself and the value it returned              *)
(*   nops     the number of calls made so far                              *)
(*   indexer  the run of the update_index command                          *)
(***************************************************************************)
VARIABLES query, sqs, iters, last, nops, indexer

vars == <<query, sqs, iters, last, nops, indexer>>

(* the number of documents in the backend's index *)
NDocs == MaxDocs

Facades == 1..MaxFacades
Iters == 1..MaxIters

(* the unfilled slot of _result_cache (Python's None) *)
NoneSlot == [none |-> TRUE]

(* The working state of one call on a facade: the Query it refers to, the  *)
(* facade's cache and count, the backend requests issued so far and the    *)
(* exception raised, if any.                                               *)
Context(f) == [q |-> query[sqs[f].q], cache |-> sqs[f].cache, count |-> sqs[f].count,
               calls |-> <<>>, exc |-> None]
Raised(cx) == ~IsNone(cx.exc)

(* run / run_mlt once the response has arrived *)
store_response(cx, q1, endpoint, resp) ==
    [cx EXCEPT !.q = [q1 EXCEPT !.results = Some(resp.hits),
                                !.hit_count = Some(resp.total),
                                !.facet_counts = Some(process_facets(resp.facets)),
                                !.suggestions = process_suggestions(q1, resp.suggest)],
               !.calls = Append(@, [endpoint |-> endpoint, from |-> q1.offset, size |-> q1.size])]

(* the request of q1, whose body is b *)
request(cx, q1, endpoint, b, params) ==
    IF IsErr(b) THEN [cx EXCEPT !.q = q1, !.exc = Some(b.error)]
    ELSE store_response(cx, q1, endpoint,
            BackendResponse(NDocs, endpoint, b.body, IF endpoint = "mlt" THEN Val(q1.mlt_doc) ELSE 0,
                            q1.offset, q1.size, params))

(* run builds the body, then sets params; it leaves params alone when the body fails *)
run_params(cx, b, params) ==
    request(cx, IF IsErr(b) THEN cx.q ELSE [cx.q EXCEPT !.params = params], "search", b, params)

run(cx) ==
    run_params(cx, build_query(cx.q), Update(cx.q.params, [from_ |-> cx.q.offset, size |-> cx.q.size]))

(* run_mlt sets mlt_options, then builds the body *)
run_mlt_options(cx, q1) == request(cx, q1, "mlt", build_query(q1), EmptyDict)

run_mlt(cx) ==
    run_mlt_options(cx, [cx.q EXCEPT !.mlt_options =
                            Update(@, [search_from |-> cx.q.offset, search_size |-> cx.q.size])])

(* get_results / get_count: the value is cx.q.results / cx.q.hit_count afterwards *)
get_results(cx) ==
    IF IsNone(cx.q.results) THEN (IF cx.q.mlt_query THEN run_mlt(cx) ELSE run(cx)) ELSE cx

get_count(cx) ==
    IF IsNone(cx.q.hit_count) THEN (IF cx.q.mlt_query THEN run_mlt(cx) ELSE run(cx)) ELSE cx

(* get_facet_counts / get_suggestions: both call run, also in mlt mode; the *)
(* value is cx.q.facet_counts / cx.q.suggestions afterwards                 *)
get_facet_counts(cx) == IF IsNone(cx.q.facet_counts) THEN run(cx) ELSE cx

get_suggestions_once(cx) == IF ~has_run(cx.q) THEN run(cx) ELSE cx
get_suggestions(cx) == IF IsNone(cx.q.suggestions) THEN run(cx) ELSE cx

(***************************************************************************)
(* SQS (src/djes/models.py)                                                *)
(***************************************************************************)
SearchResult_payload_wins(index_name, doc_type, pk, score, body) ==
    LET own == [index_name |-> index_name, doc_type |-> doc_type, pk |-> pk, score |-> score]
    IN [k \in (DOMAIN own) \cup (DOMAIN body) |-> IF k \in DOMAIN body THEN body[k] ELSE own[k]]
SearchResult(index_name, doc_type, pk, score, body) ==
    LET own == [index_name |-> index_name, doc_type |-> doc_type, pk |-> pk, score |-> score]
    IN [k \in (DOMAIN own) \cup (DOMAIN body) |-> IF k \in DOMAIN own THEN own[k] ELSE body[k]]

post_process_results(results, process_results) ==
    [i \in 1..Len(results) |->
        LET result == results[i]
            payload == IF "fields" \in DOMAIN result /\ DOMAIN result.fields # {}
                       THEN result.fields ELSE result.source
        IN IF process_results
           THEN SearchResult("content", result.type, result.id, result.score, payload)
           ELSE SetKey(payload, "doc_type", result.type)]

(* __len__: the value is cx.count afterwards *)
store_count(c1) == IF Raised(c1) THEN c1 ELSE [c1 EXCEPT !.count = c1.q.hit_count]

sqs_len(cx) == IF IsNone(cx.count) THEN store_count(get_count(cx)) ELSE cx

(* _cache_is_full once len(self) is known *)
full_of_never(c1) ==
    IF Raised(c1) THEN [cx |-> c1, val |-> FALSE]
    ELSE IF Val(c1.count) <= 0 THEN [cx |-> c1, val |-> TRUE]
    ELSE [cx |-> c1, val |-> FALSE]
full_of(c1) ==
    IF Raised(c1) THEN [cx |-> c1, val |-> FALSE]
    ELSE IF Val(c1.count) <= 0 THEN [cx |-> c1, val |-> TRUE]
    ELSE IF InSeq(NoneSlot, c1.cache) THEN [cx |-> c1, val |-> FALSE]
    ELSE [cx |-> c1, val |-> Len(c1.cache) > 0]

cache_is_full(cx) ==
    IF ~has_run(cx.q) THEN [cx |-> cx, val |-> FALSE] ELSE full_of(sqs_len(cx))

(* the slice the converted results are assigned to: [start, start + len(to_cache)) *)
fill_target_insert(start, end, n) == <<start, start>>
fill_target(start, end, n) == <<start, start + n>>

(* _fill_cache from "if len(self._result_cache) == 0" on; c2 is the context *)
(* after get_count                                                          *)
fill_slots_reallocate(c2, start, end, to_cache) ==
    [cx |-> [c2 EXCEPT !.cache =
                PySliceAssign([i \in 1..Val(c2.q.hit_count) |-> NoneSlot],
                              fill_target(start, end, Len(to_cache))[1],
                              fill_target(start, end, Len(to_cache))[2], to_cache)],
     val |-> TRUE]
fill_slots(c2, start, end, to_cache) ==
    [cx |-> [c2 EXCEPT !.cache =
                PySliceAssign(IF Len(c2.cache) = 0
                              THEN [i \in 1..Val(c2.q.hit_count) |-> NoneSlot] ELSE c2.cache,
                              fill_target(start, end, Len(to_cache))[1],
                              fill_target(start, end, Len(to_cache))[2], to_cache)],
     val |-> TRUE]

(* _fill_cache once get_results has returned *)
fill_results(c1, start, end) ==
    IF Raised(c1) THEN [cx |-> c1, val |-> FALSE]
    ELSE IF Len(Val(c1.q.results)) = 0 THEN [cx |-> c1, val |-> FALSE]
    ELSE fill_slots(IF Len(c1.cache) = 0 THEN get_count(c1) ELSE c1, start, end,
                    post_process_results(Val(c1.q.results), TRUE))

fill_cache(cx, start, end) ==
    fill_results(get_results([cx EXCEPT !.q = set_limits(reset_query(cx.q), start, end)]), start, end)

(* __getitem__ when the slice holds a None: fill unless the cache is full *)
fill_unless(full, start, bound) ==
    IF full.val \/ Raised(full.cx) THEN full.cx ELSE fill_cache(full.cx, start, bound).cx

(* __getitem__ on the slice [start, bound) *)
getitem(cx, start, bound) ==
    IF Len(cx.cache) <= 0 THEN fill_cache(cx, start, bound).cx
    ELSE IF InSeq(NoneSlot, PySlice(cx.cache, start, bound))
         THEN fill_unless(cache_is_full(cx), start, bound)
         ELSE cx

(* _manual_iter from the top of its outer loop (ManualLoop) and from the  *)
(* test that follows the inner loop (ManualRest).  The result is the      *)
(* context, the generator's locals, and what next() gives: a yielded      *)
(* value or the end of the iteration.                                      *)
RECURSIVE ManualLoop(_, _, _), ManualRest(_, _, _), ManualFill(_, _, _), ManualFilled(_, _, _)
ManualLoop(cx, pos, cmax) ==
    LET max1 == IF Len(cx.cache) > 0
                THEN (IF InSeq(NoneSlot, cx.cache) THEN PyIndex(cx.cache, NoneSlot) ELSE Len(cx.cache))
                ELSE cmax
    IN IF pos < max1
       THEN [cx |-> cx, pos |-> pos, cmax |-> max1, yield |-> Some(cx.cache[pos + 1])]
       ELSE ManualRest(cx, pos, max1)

(* if self._cache_is_full(): raise StopIteration *)
ManualRest(cx, pos, cmax) == ManualFill(cache_is_full(cx), pos, cmax)

(* if not self._fill_cache(...): raise StopIteration *)
ManualFill(full, pos, cmax) ==
    IF full.val \/ Raised(full.cx) THEN [cx |-> full.cx, pos |-> pos, cmax |-> cmax, yield |-> None]
    ELSE ManualFilled(fill_cache(full.cx, pos, pos + SIZE_PER_QUERY), pos, cmax)

ManualFilled(fill, pos, cmax) ==
    IF Raised(fill.cx) \/ ~fill.val THEN [cx |-> fill.cx, pos |-> pos, cmax |-> cmax, yield |-> None]
    ELSE ManualLoop(fill.cx, pos, cmax)

(* next() on a generator that is suspended at its yield *)
ManualResume(cx, pos, cmax) ==
    IF pos + 1 < cmax
    THEN [cx |-> cx, pos |-> pos + 1, cmax |-> cmax, yield |-> Some(cx.cache[pos + 2])]
    ELSE ManualRest(cx, pos + 1, cmax)

(* the Query object a clone refers to: its parent's *)
clone_query_copy(parent, fresh) == fresh
clone_query(parent, fresh) == sqs[parent].q

(* each SQS instance owns its _result_cache and _result_count *)
store_cache_shared(fs, f, cx) ==
    [g \in DOMAIN fs |-> IF fs[g].live /\ fs[g].q = fs[f].q
                         THEN [fs[g] EXCEPT !.cache = cx.cache, !.count = cx.count] ELSE fs[g]]
store_cache(fs, f, cx) == [fs EXCEPT ![f].cache = cx.cache, ![f].count = cx.count]

(* exhausted: the number of records the last exhausted traversal yielded, -1 *)
(* when none was exhausted since the creation or the last reset;             *)
(* indexed_only: only subscripts and traversals have been made on the facade *)
NoSqs == [live |-> FALSE, q |-> 1, cache |-> <<>>, count |-> None, exhausted |-> -1, indexed_only |-> TRUE]
(* out: the values yielded; intr: another call was made while the iterator   *)
(* was suspended; after: the facade's exhausted at __iter__; full0: the      *)
(* cache was full at __iter__                                                *)
NoIter == [kind |-> "none", f |-> 1, pc |-> "done", pos |-> 0, cmax |-> 0, out |-> <<>>,
           intr |-> FALSE, after |-> -1, full0 |-> FALSE, detached |-> FALSE]
(* op: the call, when the properties need to tell it apart; ret: its value,  *)
(* when the properties need it; again: the call before was the same call;    *)
(* filled: the call was a subscript on a cache that was not empty and held    *)
(* no None inside the window, so that every slot of the window held a        *)
(* record                                                                    *)
NoLast == [calls |-> <<>>, exc |-> None, window |-> None, refetch |-> FALSE, filled |-> FALSE,
           op |-> None, ret |-> None, again |-> FALSE]

Active(it) == it.kind # "none" /\ it.pc # "done"
(* every other call made while an iterator is suspended interrupts its traversal *)
Interrupt(its, except) ==
    [i \in Iters |-> IF i # except /\ Active(its[i]) THEN [its[i] EXCEPT !.intr = TRUE] ELSE its[i]]

Observe(cx, exc) == [NoLast EXCEPT !.calls = cx.calls, !.exc = exc]

(* what len() of the facade gives once the query has executed: the count the *)
(* facade has recorded, the total of the executed query otherwise            *)
LenOf(f) == IF IsNone(sqs[f].count) THEN Val(query[sqs[f].q].hit_count) ELSE Val(sqs[f].count)

(* "Cache full": the query has executed and the cache holds a record in each *)
(* of the N slots, N = len() of the facade (no slot when N = 0).             *)
CacheFull(f) ==
    /\ has_run(query[sqs[f].q])
    /\ Len(sqs[f].cache) = LenOf(f)
    /\ ~InSeq(NoneSlot, sqs[f].cache)

(* The root facade is SQS(index_name, doc_type) or SQS(index_name, doc_type, query) *)
(* with a Query the caller has already given a search text.                        *)
Init ==
    /\ \E q0 \in {QueryInit, add_search_query(QueryInit, "x", None),
                   add_search_query(QueryInit, "zzz", None)} :
          query = [i \in Facades |-> IF i = 1 THEN q0 ELSE QueryInit]
    /\ sqs = [f \in Facades |-> IF f = 1 THEN [NoSqs EXCEPT !.live = TRUE] ELSE NoSqs]
    /\ iters = [i \in Iters |-> NoIter]
    /\ last = NoLast
    /\ nops = 0
    /\ indexer = NoIndexer

(* __getitem__ once k is resolved to [start, bound) *)
(* not (None in self._result_cache[start:bound]): the slots of the cache  *)
(* inside the window [start, bound) all hold a record; so for a window    *)
(* past the end of the cache and for an empty one                         *)
WindowFilled(f, start, bound) == ~InSeq(NoneSlot, PySlice(sqs[f].cache, start, bound))

Subscript(f, start, bound, is_slice) ==
    \E cx \in {getitem(Context(f), start, bound)} :
       /\ sqs[f].live
       /\ query' = [query EXCEPT ![sqs[f].q] = cx.q]
       /\ sqs' = store_cache(sqs, f, cx)
       /\ iters' = Interrupt(iters, 0)
       /\ last' = [Observe(cx, IF Raised(cx) THEN cx.exc
                               ELSE IF ~is_slice /\ start >= Len(cx.cache) THEN Some("IndexError")
                               ELSE None) EXCEPT
                      !.window = IF cx.calls # <<>> THEN Some(<<start, bound>>) ELSE None,
                      !.filled = (Len(sqs[f].cache) > 0 /\ WindowFilled(f, start, bound)),
                      !.refetch =
                      \E c \in 1..Len(cx.calls) : \E p \in 1..Len(sqs[f].cache) :
                         /\ cx.calls[c].from < p /\ p <= cx.calls[c].from + cx.calls[c].size
                         /\ sqs[f].cache[p] # NoneSlot]

(* sqs[k] *)
GetItemInt(f, k) == Subscript(f, k, k + 1, FALSE)

SliceStart(kstart) == IF IsNone(kstart) THEN 0 ELSE Val(kstart)
SliceBound(kstart, kstop) == IF IsNone(kstop) THEN SliceStart(kstart) + SIZE_PER_QUERY ELSE Val(kstop)

(* sqs[kstart:kstop]; either may be omitted (None) *)
GetItemSlice(f, kstart, kstop) ==
    Subscript(f, SliceStart(kstart), SliceBound(kstart, kstop), TRUE)

(* A subscript k: an integer, a slice (start, stop; either may be None), or *)
(* a value of another type (a string, a float).                            *)
IntKey(n) == [int |-> n]
SliceKey(kstart, kstop) == [slice |-> <<kstart, kstop>>]
OtherKey(t) == [other |-> t]

(* the isinstance test and the assert that open __getitem__: the exception *)
(* raised, None when k passes                                              *)
check_subscript(k) ==
    IF "other" \in DOMAIN k THEN Some("Exception")
    ELSE IF "int" \in DOMAIN k THEN (IF k.int >= 0 THEN None ELSE Some("AssertionError"))
    ELSE IF /\ (IsNone(k.slice[1]) \/ Val(k.slice[1]) >= 0)
            /\ (IsNone(k.slice[2]) \/ Val(k.slice[2]) >= 0)
         THEN None ELSE Some("AssertionError")

(* __getitem__ raises at its first two statements, before it reads the cache *)
reject_after_fill(cx, exc) == [fill_cache(cx, 0, SIZE_PER_QUERY).cx EXCEPT !.exc = Some(exc)]
reject(cx, exc) == [cx EXCEPT !.exc = Some(exc)]

Rejected(f, k, exc) ==
    \E cx \in {reject(Context(f), exc)} :
       /\ sqs[f].live
       /\ query' = [query EXCEPT ![sqs[f].q] = cx.q]
       /\ sqs' = store_cache(sqs, f, cx)
       /\ iters' = Interrupt(iters, 0)
       /\ last' = [Observe(cx, cx.exc) EXCEPT !.op = Some([name |-> "getitem", arg |-> k])]

(* sqs[k] for any k *)
GetItem(f, k) ==
    \E bad \in {check_subscript(k)} :
       IF ~IsNone(bad) THEN Rejected(f, k, Val(bad))
       ELSE IF "int" \in DOMAIN k THEN GetItemInt(f, k.int)
       ELSE GetItemSlice(f, k.slice[1], k.slice[2])

Length(f) ==
    \E cx \in {sqs_len(Context(f))} :
       /\ sqs[f].live
       /\ query' = [query EXCEPT ![sqs[f].q] = cx.q]
       /\ sqs' = [store_cache(sqs, f, cx) EXCEPT ![f].indexed_only = FALSE]
       /\ iters' = Interrupt(iters, 0)
       /\ last' = Observe(cx, cx.exc)

Reset(f) ==
    /\ sqs[f].live
    /\ query' = [query EXCEPT ![sqs[f].q] = reset_query(@)]
    /\ sqs' = [sqs EXCEPT ![f].indexed_only = FALSE, ![f].exhausted = -1]
    /\ iters' = Interrupt(iters, 0)
    /\ last' = Observe(Context(f), None)

(* backend.get / backend.delete: the client raises when the backend cannot *)
(* be reached and when it has no document of that id.  Removing a document *)
(* that exists would change the index, which the model keeps fixed: the    *)
(* ids given to remove are those of no document.                           *)
(* "if fields:" in SQS.get: a list of fields that is not empty *)
Truthy(fields) == ~IsNone(fields) /\ Val(fields) # <<>>

BackendGet(doc_id, fields, up) ==
    IF ~up THEN [error |-> "ConnectionError"]
    ELSE IF doc_id \notin 1..NDocs THEN [error |-> "NotFoundError"]
    ELSE [result |-> Hit(doc_id, Truthy(fields))]

BackendDelete(doc_id, up) ==
    IF ~up THEN [error |-> "ConnectionError"]
    ELSE IF doc_id \notin 1..NDocs THEN [error |-> "NotFoundError"]
    ELSE [result |-> [id |-> doc_id, found |-> TRUE]]

(* SQS.get: the bare except turns every exception into the value None *)
sqs_get_raises(cx, resp, fields) ==
    IF "error" \in DOMAIN resp
    THEN [cx |-> IF resp.error = "ConnectionError" THEN [cx EXCEPT !.exc = Some(resp.error)] ELSE cx,
          ret |-> None]
    ELSE [cx |-> cx,
          ret |-> Some(SearchResult("content", "item", resp.result.id, 0,
                                    IF Truthy(fields) THEN resp.result.fields ELSE resp.result.source))]
sqs_get(cx, resp, fields) ==
    IF "error" \in DOMAIN resp THEN [cx |-> cx, ret |-> None]
    ELSE [cx |-> cx,
          ret |-> Some(SearchResult("content", "item", resp.result.id, 0,
                                    IF Truthy(fields) THEN resp.result.fields ELSE resp.result.source))]

(* SQS.remove: the value of backend.delete, None when it raises *)
sqs_remove(cx, resp) ==
    IF "error" \in DOMAIN resp THEN [cx |-> cx, ret |-> None]
    ELSE [cx |-> cx, ret |-> Some(resp.result)]

(* a call that returns r.ret and leaves the facade in the context r.cx *)
Returned(f, r, name, arg) ==
    /\ sqs[f].live
    /\ query' = [query EXCEPT ![sqs[f].q] = r.cx.q]
    /\ sqs' = store_cache(sqs, f, r.cx)
    /\ iters' = Interrupt(iters, 0)
    /\ last' = [Observe(r.cx, r.cx.exc) EXCEPT !.op = Some([name |-> name, arg |-> arg]),
                                              !.ret = Some(r.ret),
                                              !.again = (~IsNone(last.op) /\ Val(last.op).name = name
                                                         /\ Val(last.op).arg = arg)]

Get(f, doc_id, fields, up) ==
    Returned(f, sqs_get(Context(f), BackendGet(doc_id, fields, up), fields), "get",
             [doc_id |-> doc_id, up |-> up])

Remove(f, doc_id, up) ==
    Returned(f, sqs_remove(Context(f), BackendDelete(doc_id, up)), "remove",
             [doc_id |-> doc_id, up |-> up])

(* conf.REPR_OUTPUT_SIZE; the conf module is not part of the sources *)
REPR_OUTPUT_SIZE == 20

(* __repr__: data = list(self[:REPR_OUTPUT_SIZE]), then len(self); the     *)
(* value is the list that is printed                                       *)
repr_data(c2, data) ==
    IF Raised(c2) THEN [cx |-> c2, ret |-> None]
    ELSE IF Val(c2.count) > REPR_OUTPUT_SIZE
         THEN (IF Len(data) = 0 THEN [cx |-> [c2 EXCEPT !.exc = Some("IndexError")], ret |-> None]
               ELSE [cx |-> c2, ret |-> Some([data EXCEPT ![Len(data)] = "...(remaining elements truncated)..."])])
         ELSE [cx |-> c2, ret |-> Some(data)]
sqs_repr(c1) ==
    IF Raised(c1) THEN [cx |-> c1, ret |-> None]
    ELSE repr_data(sqs_len(c1), PySlice(c1.cache, 0, REPR_OUTPUT_SIZE))

Repr(f) ==
    \E r \in {sqs_repr(getitem(Context(f), 0, REPR_OUTPUT_SIZE))} :
       /\ sqs[f].live
       /\ query' = [query EXCEPT ![sqs[f].q] = r.cx.q]
       /\ sqs' = [store_cache(sqs, f, r.cx) EXCEPT ![f].indexed_only = FALSE]
       /\ iters' = Interrupt(iters, 0)
       /\ last' = [Observe(r.cx, r.cx.exc) EXCEPT !.op = Some([name |-> "__repr__", arg |-> <<>>]),
                                                 !.ret = Some(r.ret)]

(* SQS.facet_counts / SQS.get_suggestions *)
facet_counts(cx) == [cx |-> cx, ret |-> IF Raised(cx) THEN None ELSE cx.q.facet_counts]
suggestions_of(cx) == [cx |-> cx, ret |-> IF Raised(cx) THEN None ELSE cx.q.suggestions]

FacetCounts(f) == Returned(f, facet_counts(get_facet_counts(Context(f))), "facet_counts", <<>>)
GetSuggestions(f) == Returned(f, suggestions_of(get_suggestions(Context(f))), "get_suggestions", <<>>)

(* __iter__: a list iterator over the cache when it is full, the generator otherwise *)
IterStart(i, f) ==
    \E full \in {cache_is_full(Context(f))} :
       /\ sqs[f].live
       /\ ~Active(iters[i])
       /\ query' = [query EXCEPT ![sqs[f].q] = full.cx.q]
       /\ sqs' = store_cache(sqs, f, full.cx)
       /\ iters' = [Interrupt(iters, i) EXCEPT ![i] =
                      IF Raised(full.cx) THEN NoIter
                      ELSE [kind |-> IF full.val THEN "list" ELSE "gen", f |-> f, pc |-> "start",
                            pos |-> 0, cmax |-> 0, out |-> <<>>, intr |-> FALSE,
                            after |-> sqs[f].exhausted, full0 |-> CacheFull(f),
                            detached |-> full.val /\ Len(full.cx.cache) = 0]]
       /\ last' = Observe(full.cx, full.cx.exc)

(* iter(self._result_cache): the list the iterator walks.  _result_cache is  *)
(* rebound to a new list only while it is empty, so an iterator over an      *)
(* empty cache stays on the empty list it was made from (detached).          *)
iter_cache_empty(cache, detached) == <<>>
iter_cache(cache, detached) == IF detached THEN <<>> ELSE cache

(* next() on the list iterator *)
ListNext(i) ==
    LET it == iters[i]
        f == it.f
        cache == iter_cache(sqs[f].cache, it.detached)
        more == it.pos < Len(cache)
    IN /\ it.kind = "list" /\ it.pc # "done"
       /\ iters' = [Interrupt(iters, i) EXCEPT ![i] =
                      IF more THEN [it EXCEPT !.pos = @ + 1, !.out = Append(@, cache[it.pos + 1]), !.pc = "yielded"]
                      ELSE [it EXCEPT !.pc = "done"]]
       /\ sqs' = [sqs EXCEPT ![f].exhausted = IF more THEN @ ELSE Len(it.out)]
       /\ last' = Observe(Context(f), IF more THEN None ELSE Some("StopIteration"))
       /\ UNCHANGED query

(* What "raise StopIteration" in the generator gives the caller of next():  *)
(* the end of the iteration on the interpreters on which a StopIteration    *)
(* leaves a generator, a RuntimeError on those that replace it (PEP 479,    *)
(* Python 3.7 and later).  The code runs on both (it imports six).          *)
raise_StopIteration == {Some("StopIteration"), Some("RuntimeError")}

(* next() on the generator _manual_iter *)
GenNext(i) ==
    \E it \in {iters[i]} :
    \E r \in {IF it.kind # "gen" \/ it.pc = "done" THEN [cx |-> Context(it.f), pos |-> 0, cmax |-> 0, yield |-> None]
              ELSE IF it.pc = "start" THEN ManualLoop(Context(it.f), it.pos, it.cmax)
              ELSE ManualResume(Context(it.f), it.pos, it.cmax)} :
    \E more \in {~IsNone(r.yield)} :
       /\ it.kind = "gen" /\ it.pc # "done"
       /\ query' = [query EXCEPT ![sqs[it.f].q] = r.cx.q]
       /\ sqs' = [store_cache(sqs, it.f, r.cx) EXCEPT
                    ![it.f].exhausted = IF ~more /\ ~Raised(r.cx) THEN Len(it.out) ELSE @]
       /\ iters' = [Interrupt(iters, i) EXCEPT ![i] =
                      [it EXCEPT !.pos = r.pos, !.cmax = r.cmax,
                                 !.out = IF more THEN Append(@, Val(r.yield)) ELSE @,
                                 !.pc = IF more THEN "yielded" ELSE "done"]]
       /\ \E exc \in (IF more THEN {None} ELSE IF Raised(r.cx) THEN {r.cx.exc}
                       ELSE raise_StopIteration) :
             last' = Observe(r.cx, exc)

(***************************************************************************)
(* The chain operations: _clone, then the mutation of clone.query.         *)
(***************************************************************************)
Criteria == {<<<<"price", "gte">>, Scalar("10")>>}
RawAll == "query" :> ("match_all" :> EmptyDict)

QueryOf(f) == query[sqs[f].q]

Chain(parent, mutated) ==
    \E g \in Facades :
       \E qid \in {clone_query(parent, g)} :
          /\ sqs[parent].live
          /\ ~sqs[g].live /\ \A h \in Facades : h < g => sqs[h].live
          /\ query' = [query EXCEPT ![qid] = mutated]
          /\ sqs' = [sqs EXCEPT ![g] = [NoSqs EXCEPT !.live = TRUE, !.q = qid],
                                ![parent].indexed_only = FALSE]
          /\ iters' = Interrupt(iters, 0)
          /\ last' = Observe(Context(parent), None)

Search(f) ==
    \E content \in {"x", "zzz"} : Chain(f, add_search_query(QueryOf(f), content, None))
Filter(f) ==
    \E c \in Criteria :
       Chain(f, IF DEFAULT_FILTER = "AND" THEN add_filter_and(QueryOf(f), c[1], c[2])
                ELSE add_filter_or(QueryOf(f), c[1], c[2]))
FilterAnd(f) ==
    \E c \in Criteria : Chain(f, add_filter_and(QueryOf(f), c[1], c[2]))
FilterOr(f) ==
    \E c \in Criteria : Chain(f, add_filter_or(QueryOf(f), c[1], c[2]))
Only(f) == Chain(f, add_fields(QueryOf(f), <<"title">>))
Sort(f) == Chain(f, add_sort(QueryOf(f), <<<<"-", "price">>, <<"title">>>>))
RawQuery(f) == Chain(f, add_raw_query(QueryOf(f), RawAll))
RawParams(f) == Chain(f, add_raw_params(QueryOf(f), "min_score" :> "1"))
FunctionScore(f) == Chain(f, add_function_score(QueryOf(f), "boost_mode" :> "sum"))
Facet(f) == Chain(f, add_term_facet(QueryOf(f), "brand", EmptyDict))
FacetFilter(f) ==
    \E c \in Criteria : Chain(f, add_term_facet_filter(QueryOf(f), "brand", c[1], c[2]))
Suggest(f) == Chain(f, add_suggestion(QueryOf(f), "x", "title", "missing", 1))
Mlt(f) == Chain(f, mlt(QueryOf(f), 1, None, EmptyDict))

Indexes == 0..MaxIndex
(* the start and the stop of a slice: omitted, or a number *)
Starts == {None, Some(1)}
Stops == {None} \cup {Some(k) : k \in 0..(MaxIndex + 1)}

(* The result set and its cache, with the chain operations that change what *)
(* an execution gives: another hit list, a query that does not render.      *)
Step(A) == nops < MaxOps /\ nops' = nops + 1 /\ A /\ UNCHANGED indexer

Next ==
    \/ \E f \in Facades, k \in Indexes : Step(GetItemInt(f, k))
    \/ \E f \in Facades, a \in Starts, b \in Stops : Step(GetItemSlice(f, a, b))
    \/ \E f \in Facades : Step(Length(f))
    \/ \E f \in Facades : Step(Reset(f))
    \/ \E i \in Iters, f \in Facades : Step(IterStart(i, f))
    \/ \E i \in Iters : Step(ListNext(i))
    \/ \E i \in Iters : Step(GenNext(i))
    \/ \E f \in Facades : Step(Search(f))
    \/ \E f \in Facades : Step(RawQuery(f))
    \/ \E f \in Facades : Step(FunctionScore(f))

Spec == Init /\ [][Next]_vars

(* The query builder under every chain operation. *)
NextChain ==
    \/ \E f \in Facades : Step(Length(f))
    \/ \E f \in Facades : Step(Reset(f))
    \/ \E f \in Facades : Step(Search(f))
    \/ \E f \in Facades : Step(Filter(f))
    \/ \E f \in Facades : Step(FilterAnd(f))
    \/ \E f \in Facades : Step(FilterOr(f))
    \/ \E f \in Facades : Step(Only(f))
    \/ \E f \in Facades : Step(Sort(f))
    \/ \E f \in Facades : Step(RawQuery(f))
    \/ \E f \in Facades : Step(RawParams(f))
    \/ \E f \in Facades : Step(FunctionScore(f))
    \/ \E f \in Facades : Step(Facet(f))
    \/ \E f \in Facades : Step(FacetFilter(f))
    \/ \E f \in Facades : Step(Suggest(f))
    \/ \E f \in Facades : Step(Mlt(f))

SpecChain == Init /\ [][NextChain]_vars

(***************************************************************************)
(* The methods of Query called on the Query of the root facade, and        *)
(* build_query (SQS.show_query).                                           *)
(***************************************************************************)
(* what the unpacking of key.split("__") raises *)
split_error(key) == IF Len(key) > 2 THEN Some("ValueError") ELSE None
filter_error(key) == IF key = <<"ids">> THEN None ELSE split_error(key)

(* the Query after build_query: build_query assigns to no attribute, and   *)
(* each attribute that holds an object shows what build_query has left of  *)
(* the object                                                              *)
after_build(q, h) ==
    [k \in DOMAIN q |-> IF k \in Attrs /\ ~IsNone(q[k]) THEN Some(Deref(h, k)) ELSE q[k]]

QueryCall(mutated, exc, name, arg, ret) ==
    /\ query' = [query EXCEPT ![sqs[1].q] = mutated]
    /\ iters' = Interrupt(iters, 0)
    /\ last' = [NoLast EXCEPT !.exc = exc, !.op = Some([name |-> name, arg |-> arg]), !.ret = ret,
                              !.again = (~IsNone(last.op) /\ Val(last.op).name = name
                                         /\ Val(last.op).arg = arg)]
    /\ UNCHANGED sqs

FilterCriteria ==
    {<<<<"ids">>, List(<<"1", "2">>)>>,
     <<<<"price", "gt">>, Scalar("10")>>, <<<<"price", "gte">>, Scalar("10")>>,
     <<<<"price", "lt">>, Scalar("10")>>, <<<<"price", "lte">>, Scalar("10")>>,
     <<<<"price", "gte">>, List(<<"1", "2">>)>>,
     <<<<"tag", "in">>, List(<<"1", "2">>)>>, <<<<"tag", "in">>, Scalar("10")>>,
     <<<<"tag">>, List(<<"1", "2">>)>>, <<<<"tag">>, Scalar("10")>>,
     <<<<"price", "near">>, Scalar("10")>>,
     <<<<"price", "gte", "x">>, Scalar("10")>>}
Criterion(c) == [key |-> c[1], val |-> c[2]]

AddFilterAnd(c) ==
    QueryCall(add_filter_and(QueryOf(1), c[1], c[2]), filter_error(c[1]), "add_filter_and", Criterion(c), None)
AddFilterOr(c) ==
    QueryCall(add_filter_or(QueryOf(1), c[1], c[2]), filter_error(c[1]), "add_filter_or", Criterion(c), None)
AddSearchQuery(content, search_fields) ==
    QueryCall(add_search_query(QueryOf(1), content, search_fields), None, "add_search_query", content, None)
AddFields == QueryCall(add_fields(QueryOf(1), <<"title">>), None, "add_fields", <<>>, None)
AddSuggestion ==
    QueryCall(add_suggestion(QueryOf(1), "x", "title", "missing", 1), None, "add_suggestion", <<>>, None)
AddTermFacet(field, kwargs) ==
    QueryCall(add_term_facet(QueryOf(1), field, kwargs), None, "add_term_facet", field, None)
AddTermFacetFilter(field, c) ==
    QueryCall(add_term_facet_filter(QueryOf(1), field, c[1], c[2]), split_error(c[1]),
              "add_term_facet_filter", [field |-> field, key |-> c[1], val |-> c[2]], None)
AddFunctionScore ==
    QueryCall(add_function_score(QueryOf(1), "boost_mode" :> "sum"), None, "add_function_score", <<>>, None)
(* the fields given to add_sort: each a name, with the prefix "-" or without *)
SortArgs ==
    {<<>>, <<<<"title">>>>, <<<<"-", "price">>, <<"title">>>>, <<<<"title">>, <<"-", "price">>>>,
     <<<<"-", "price">>, <<"-", "title">>>>}
AddSort(args) == QueryCall(add_sort(QueryOf(1), args), None, "add_sort", args, None)
AddRawQuery == QueryCall(add_raw_query(QueryOf(1), RawAll), None, "add_raw_query", <<>>, None)
AddRawParams == QueryCall(add_raw_params(QueryOf(1), "min_score" :> "1"), None, "add_raw_params", <<>>, None)
QueryMlt == QueryCall(mlt(QueryOf(1), 1, None, EmptyDict), None, "mlt", <<>>, None)

(* build_query: the value returned, or the exception *)
BuildQuery ==
    \E r \in {build_query_run(QueryOf(1))} :
       \E b \in {build_query_value(r)} :
          QueryCall(after_build(QueryOf(1), r.heap), IF IsErr(b) THEN Some(b.error) ELSE None,
                    "build_query", <<>>, Some(b))

FacetFields == {"brand", "color"}
FacetOptions == {EmptyDict, "size" :> "5"}

StepCall(A) == nops < MaxCalls /\ nops' = nops + 1 /\ A /\ UNCHANGED indexer

NextBuilder ==
    \/ \E c \in FilterCriteria : StepCall(AddFilterAnd(c))
    \/ \E c \in FilterCriteria : StepCall(AddFilterOr(c))
    \/ \E t \in {"x"}, sf \in {None, Some(<<"title">>)} : StepCall(AddSearchQuery(t, sf))
    \/ StepCall(AddFields)
    \/ StepCall(AddSuggestion)
    \/ \E fd \in FacetFields, kw \in FacetOptions : StepCall(AddTermFacet(fd, kw))
    \/ \E fd \in FacetFields, c \in FilterCriteria : StepCall(AddTermFacetFilter(fd, c))
    \/ StepCall(AddFunctionScore)
    \/ \E args \in SortArgs : StepCall(AddSort(args))
    \/ StepCall(AddRawQuery)
    \/ StepCall(AddRawParams)
    \/ StepCall(QueryMlt)
    \/ StepCall(BuildQuery)

SpecBuilder == Init /\ [][NextBuilder]_vars

(* Subscripts of every kind, and the document calls get and remove. *)
Subscripts ==
    {IntKey(n) : n \in -1..MaxIndex}
    \cup {SliceKey(a, b) : a \in {None, Some(-1), Some(1)},
                            b \in {None, Some(-1), Some(0), Some(1), Some(2)}}
    \cup {OtherKey("text"), OtherKey("float")}
DocIds == {1, NDocs + 1}
MissingIds == {NDocs + 1}
FieldLists == {None, Some(<<>>), Some(<<"title">>)}

NextAccess ==
    \/ \E f \in Facades, k \in Subscripts : Step(GetItem(f, k))
    \/ \E f \in Facades : Step(Length(f))
    \/ \E f \in Facades : Step(Repr(f))
    \/ \E f \in Facades : Step(Search(f))
    \/ \E f \in Facades, d \in DocIds, fl \in FieldLists, up \in BOOLEAN : Step(Get(f, d, fl, up))
    \/ \E f \in Facades, d \in MissingIds, up \in BOOLEAN : Step(Remove(f, d, up))

SpecAccess == Init /\ [][NextAccess]_vars

(* Executions through every path, on a root facade whose Query the caller *)
(* may have given a search text, a facet, a suggestion or the mlt mode.   *)
WithFacet(q, on) == IF on THEN add_term_facet(q, "brand", EmptyDict) ELSE q
WithSuggestion(q, on) == IF on THEN add_suggestion(q, "x", "title", "missing", 1) ELSE q
WithMlt(q, on) == IF on THEN mlt(q, 1, None, EmptyDict) ELSE q
RunQueries ==
    {WithMlt(WithSuggestion(WithFacet(q0, fa), su), ml) :
        q0 \in {QueryInit, add_search_query(QueryInit, "x", None)}, fa \in BOOLEAN, su \in BOOLEAN,
        ml \in BOOLEAN}

InitRun ==
    /\ \E q0 \in RunQueries : query = [i \in Facades |-> IF i = 1 THEN q0 ELSE QueryInit]
    /\ sqs = [f \in Facades |-> IF f = 1 THEN [NoSqs EXCEPT !.live = TRUE] ELSE NoSqs]
    /\ iters = [i \in Iters |-> NoIter]
    /\ last = NoLast
    /\ nops = 0
    /\ indexer = NoIndexer

StepRun(A) == nops < MaxRun /\ nops' = nops + 1 /\ A /\ UNCHANGED indexer

NextRun ==
    \/ \E f \in Facades, k \in Indexes : StepRun(GetItemInt(f, k))
    \/ \E f \in Facades : StepRun(Length(f))
    \/ \E f \in Facades : StepRun(Reset(f))
    \/ \E i \in Iters, f \in Facades : StepRun(IterStart(i, f))
    \/ \E i \in Iters : StepRun(ListNext(i))
    \/ \E i \in Iters : StepRun(GenNext(i))
    \/ \E f \in Facades : StepRun(FacetCounts(f))
    \/ \E f \in Facades : StepRun(GetSuggestions(f))
    \/ \E f \in Facades : StepRun(Mlt(f))
    \/ \E f \in Facades : StepRun(FunctionScore(f))

SpecRun == InitRun /\ [][NextRun]_vars

(***************************************************************************)
(* The conversions of a response, applied to hits and suggestion sections  *)
(* of every shape: post_process_results and process_suggestions.           *)
(***************************************************************************)
MaxTerms == 3

(* a hit carries its payload under "fields" (a projection, never empty) or  *)
(* under "_source"; the payload may have a key of any name (its values are  *)
(* 0, which is the id and the score of no hit)                              *)
PayloadKeys == {"title", "index_name", "doc_type", "pk", "score"}
Payloads == UNION {[ks -> {0}] : ks \in SUBSET PayloadKeys}
Hits ==
    {[id |-> d, type |-> "item", score |-> d, source |-> p] : d \in 1..MaxDocs, p \in Payloads}
    \cup {[id |-> d, type |-> "item", score |-> d, fields |-> p] :
             d \in 1..MaxDocs, p \in {x \in Payloads : DOMAIN x # {}}}

(* the suggest section has one entry per token of the text, each with the   *)
(* candidates of its term, best first                                       *)
Candidates ==
    ("teh" :> <<[text |-> "the"], [text |-> "ten"]>>) @@ ("wrld" :> <<[text |-> "world"]>>)
    @@ ("xq" :> <<>>)
TermLists == UNION {[1..n -> DOMAIN Candidates] : n \in 0..MaxTerms}
SuggestSections ==
    {None} \cup {Some("title" :> [i \in 1..Len(ts) |-> [text |-> ts[i], options |-> Candidates[ts[i]]]]) :
                    ts \in TermLists}

PureInputs ==
    {[name |-> "post_process_results", arg |-> [results |-> <<h>>, process_results |-> pr]] :
        h \in Hits, pr \in BOOLEAN}
    \cup {[name |-> "process_suggestions", arg |-> sg] : sg \in SuggestSections}

InitPure ==
    /\ query = [i \in Facades |->
                  IF i = 1 THEN add_suggestion(QueryInit, "x", "title", "missing", 1) ELSE QueryInit]
    /\ sqs = [f \in Facades |-> IF f = 1 THEN [NoSqs EXCEPT !.live = TRUE] ELSE NoSqs]
    /\ iters = [i \in Iters |-> NoIter]
    /\ \E inp \in PureInputs : last = [NoLast EXCEPT !.op = Some(inp)]
    /\ nops = 0
    /\ indexer = NoIndexer

Applied(name, ret) ==
    /\ ~IsNone(last.op) /\ Val(last.op).name = name
    /\ nops = 0 /\ nops' = 1
    /\ last' = [last EXCEPT !.ret = Some(ret)]
    /\ UNCHANGED <<query, sqs, iters, indexer>>

PostProcess ==
    Applied("post_process_results",
            post_process_results(Val(last.op).arg.results, Val(last.op).arg.process_results))
ProcessSuggestions ==
    Applied("process_suggestions", process_suggestions(QueryOf(1), Val(last.op).arg))

NextPure == PostProcess \/ ProcessSuggestions

SpecPure == InitPure /\ [][NextPure]_vars

(***************************************************************************)
(* The run of update_index for the label "content": every document type of *)
(* the index, with the batches run by the command itself (workers = 0) or  *)
(* by the processes of a pool.                                             *)
(***************************************************************************)
Tables == UNION {[1..n -> BOOLEAN] : n \in 0..MaxRows}

InitIndex ==
    /\ query = [i \in Facades |-> QueryInit]
    /\ sqs = [f \in Facades |-> IF f = 1 THEN [NoSqs EXCEPT !.live = TRUE] ELSE NoSqs]
    /\ iters = [i \in Iters |-> NoIter]
    /\ last = NoLast
    /\ nops = 0
    /\ \E t \in Tables, b \in 1..MaxBatch, w \in 0..MaxWorkers, r \in BOOLEAN :
          indexer = [NoIndexer EXCEPT !.table = [i \in 1..Len(t) |-> Row(i, t[i])],
                                      !.batch_size = b, !.workers = w, !.remove = r]

Idle == indexer.ghetto_queue = <<>> /\ \A w \in Processes : IsNone(indexer.busy[w])

(* update_backend: the body of "for doctype in doc_types" up to the batches; *)
(* it is entered when the batches of the type before have all been run       *)
(* (do_update has returned, pool.map has returned)                           *)
update_backend ==
    /\ indexer.started < Len(doc_types)
    /\ Idle
    /\ indexer' = [indexer EXCEPT
                     !.started = @ + 1,
                     !.ghetto_queue = batches(Len(queryset(doc_types[indexer.started + 1], indexer.table)),
                                              indexer.batch_size)]
    /\ UNCHANGED <<query, sqs, iters, last, nops>>

(* the processes that run batches: the command itself, or the pool's workers *)
Runs(w) == IF indexer.workers = 0 THEN w = 0 ELSE (1 <= w /\ w <= indexer.workers)

(* the rows do_update iterates over: qs.all()[start:end] *)
current_qs(doctype, table, start, end) == PySlice(queryset(doctype, table), start, end)

(* the processes that could call do_update next: they run a batch and have *)
(* none in hand                                                            *)
Waiting == {w \in Processes : Runs(w) /\ IsNone(indexer.busy[w])}

(* s without its ith element *)
Without(s, i) == SubSeq(s, 1, i - 1) \o SubSeq(s, i + 1, Len(s))

(* worker(bits) up to its call of do_update, or the command's own call of  *)
(* do_update.  ghetto_queue holds the batches do_update has not been       *)
(* called with.  The pool hands them to its processes in list order, one   *)
(* at a time (a list of at most 4 * workers tasks is cut into chunks of    *)
(* one), but each process runs the head of worker(bits) on its own before  *)
(* it calls do_update: the next call of do_update is for any of the first  *)
(* k batches, k the number of processes that wait.                         *)
worker(w) ==
    /\ w \in Waiting
    /\ \E i \in 1..Min(Len(indexer.ghetto_queue), Cardinality(Waiting)) :
          indexer' = [indexer EXCEPT
                        !.ghetto_queue = Without(@, i),
                        !.busy[w] = Some([start |-> indexer.ghetto_queue[i][1],
                                          end |-> indexer.ghetto_queue[i][2], done |-> 0]),
                        !.handed[indexer.started] = Append(@, indexer.ghetto_queue[i])]
    /\ UNCHANGED <<query, sqs, iters, last, nops>>

(* the calls after one more item of the batch: sqs.index when the item is  *)
(* active, sqs.remove when it is not and remove is set                      *)
do_update_item_both(calls, item, remove) ==
    IF Published(item) THEN [calls EXCEPT ![item.pk].index = @ + 1, ![item.pk].remove = @ + 1]
    ELSE IF remove THEN [calls EXCEPT ![item.pk].remove = @ + 1]
    ELSE calls
do_update_item(calls, item, remove) ==
    IF Published(item) THEN [calls EXCEPT ![item.pk].index = @ + 1]
    ELSE IF remove THEN [calls EXCEPT ![item.pk].remove = @ + 1]
    ELSE calls

(* do_update: one pass of "for item in current_qs"; the batch is done with *)
(* its last item                                                           *)
do_update(w) ==
    /\ ~IsNone(indexer.busy[w])
    /\ \E b \in {Val(indexer.busy[w])} :
       \E rows \in {current_qs(doc_types[indexer.started], indexer.table, b.start, b.end)} :
          indexer' = [indexer EXCEPT
                        !.calls[indexer.started] = do_update_item(@, rows[b.done + 1], indexer.remove),
                        !.busy[w] = IF b.done + 1 >= Len(rows) THEN None
                                    ELSE Some([b EXCEPT !.done = @ + 1])]
    /\ UNCHANGED <<query, sqs, iters, last, nops>>

NextIndex ==
    \/ update_backend
    \/ \E w \in Processes : worker(w)
    \/ \E w \in Processes : do_update(w)

SpecIndex == InitIndex /\ [][NextIndex]_vars

(***************************************************************************)
(* Properties.                                                             *)
(***************************************************************************)
(* every record of the hit list of q, in rank order, as the cache holds them *)
AllRecords(q) ==
    post_process_results(
        BackendResponse(NDocs, IF q.mlt_query THEN "mlt" ELSE "search", build_query(q).body,
                        IF q.mlt_query THEN Val(q.mlt_doc) ELSE 0, 0, NDocs, q.params).hits, TRUE)

Renders(q) == ~IsErr(build_query(q))

(* the resolved windows [a, b) of the subscripts *)
WindowStarts == 0..MaxIndex
WindowBounds == 0..(MaxIndex + 1 + SIZE_PER_QUERY)

(* C1 as stated: a range access that overlaps an already-fetched range      *)
(* requests from the backend only slots that were still unfilled.           *)
C1_FetchesOnlyUnfilled == ~IsNone(last.window) => ~last.refetch

(* C1, amended: a subscript issues at most one request; the request it      *)
(* issues is for its whole window [start, bound), offset = start and size = *)
(* bound - start, also when some slots of the window are already filled;    *)
(* it issues none when the cache is not empty and holds no None inside the  *)
(* window: when every slot of the window is filled, and also when the       *)
(* window lies past the end of the cache or is empty.                       *)
C1_FetchesWholeWindow ==
    /\ ~IsNone(last.window) =>
          /\ Len(last.calls) = 1
          /\ last.calls[1].from = Val(last.window)[1]
          /\ last.calls[1].size = Val(last.window)[2] - Val(last.window)[1]
    /\ last.filled => (last.calls = <<>> /\ IsNone(last.window))

(* [0:2] fetched again although slot 0 was filled *)
C1_Witness ==
    /\ last.refetch
    /\ last.window = Some(<<0, 2>>)
    /\ last.calls = <<[endpoint |-> "search", from |-> 0, size |-> 2]>>

(* the window [start, bound) holds a slot that is not filled: a None of the *)
(* cache, or any slot as long as the facade has no cache                    *)
TouchesUnfilled(f, start, bound) ==
    /\ start < bound
    /\ \/ Len(sqs[f].cache) = 0
       \/ InSeq(NoneSlot, PySlice(sqs[f].cache, start, bound))

(* C2: a subscript [start, stop) that touches an unfilled slot issues       *)
(* exactly one backend execution, with offset = start and size = stop -     *)
(* start.                                                                   *)
C2_OneExecutionPerMiss ==
    [][\A f \in Facades, a \in WindowStarts, b \in WindowBounds :
          (TouchesUnfilled(f, a, b) /\ (Subscript(f, a, b, TRUE) \/ Subscript(f, a, b, FALSE)))
          => /\ Len(last'.calls) = 1
             /\ last'.calls[1].from = a
             /\ last'.calls[1].size = b - a]_vars

(* the hit count of the root facade's query *)
RootTotal == Len(BackendDocs(NDocs, "search", build_query(query[1]).body, 0))
OnlyRoot == \A g \in Facades \ {1} : ~sqs[g].live

(* C3: as long as no chain operation is made (one result set, one hit      *)
(* list), a cache that has been allocated keeps the length N, the total of *)
(* the query, and a slot that holds a record never goes back to None.      *)
C3_CacheKeepsLengthAndRecords ==
    [][OnlyRoot' =>
          \A f \in Facades :
             /\ Len(sqs'[f].cache) > 0 => Len(sqs'[f].cache) = RootTotal
             /\ Len(sqs[f].cache) > 0 =>
                   /\ Len(sqs'[f].cache) = Len(sqs[f].cache)
                   /\ \A p \in 1..Len(sqs[f].cache) :
                         sqs[f].cache[p] # NoneSlot => sqs'[f].cache[p] = sqs[f].cache[p]]_vars

(* the root's cache has been filled by two fetches, slot by slot *)
C3_Witness ==
    /\ OnlyRoot
    /\ Len(sqs[1].cache) = 2
    /\ ~InSeq(NoneSlot, sqs[1].cache)
    /\ last.window = Some(<<1, 2>>)

(* only subscripts and traversals have been made so far *)
OnlyIndexed == OnlyRoot /\ sqs[1].indexed_only

(* C4: from any cache state that subscripts (and traversals) have led to,  *)
(* a traversal that runs to its end without another call in between yields *)
(* every one of the N hits of the query, in rank order, each once, and     *)
(* then ends as an iteration ends (StopIteration).                         *)
C4_TraversalYieldsAllHits ==
    [][\A i \in Iters :
          (/\ OnlyIndexed'
           /\ Active(iters[i])
           /\ iters'[i].pc = "done"
           /\ ~iters'[i].intr)
          => /\ iters'[i].out = AllRecords(query'[sqs[iters[i].f].q])
             /\ last'.exc = Some("StopIteration")]_vars

(* C5: reset() discards the cache of the facade, so that the cache is      *)
(* empty afterwards.                                                       *)
C5_ResetDiscardsCache ==
    [][\A f \in Facades : Reset(f) => sqs'[f].cache = <<>> /\ sqs'[f].count = None]_vars

(* C6 as stated: after a traversal has been exhausted, a traversal of the  *)
(* same result set that is started without a reset() in between yields     *)
(* nothing.                                                                *)
C6_RetraversalYieldsNothing ==
    \A i \in Iters :
       (iters[i].kind # "none" /\ iters[i].after >= 0 /\ ~iters[i].intr) => iters[i].out = <<>>

(* C6, amended: a traversal that is started after an exhausted one, without *)
(* a reset() in between, and that runs to its end yields records again: the *)
(* slots of the cache from the first on, at least as many as the exhausted  *)
(* traversal yielded.                                                       *)
C6_RetraversalReplaysCache ==
    [][\A i \in Iters :
          (/\ Active(iters[i])
           /\ iters'[i].kind # "none" /\ iters'[i].pc = "done"
           /\ ~iters'[i].intr
           /\ iters'[i].after >= 0)
          => /\ Len(iters'[i].out) >= iters'[i].after
             /\ Len(iters'[i].out) <= Len(sqs'[iters'[i].f].cache)
             /\ \A p \in 1..Len(iters'[i].out) :
                   iters'[i].out[p] = sqs'[iters'[i].f].cache[p]]_vars

(* a second traversal has ended and has yielded a record again *)
C6_Witness ==
    \E i \in Iters :
       /\ iters[i].kind # "none" /\ iters[i].pc = "done" /\ ~iters[i].intr
       /\ iters[i].after >= 1
       /\ Len(iters[i].out) = iters[i].after
       /\ sqs[iters[i].f].exhausted = iters[i].after

(* C7: a traversal that is started when the cache is full yields the       *)
(* cached records in order and issues no backend call.                     *)
C7_FullCacheReplaysWithoutCall ==
    [][\A i \in Iters :
          (/\ Active(iters[i])
           /\ iters[i].full0
           /\ iters'[i] # iters[i]
           /\ ~iters'[i].intr)
          => /\ last'.calls = <<>>
             /\ iters'[i].out = SubSeq(sqs'[iters'[i].f].cache, 1, Len(iters'[i].out))
             /\ iters'[i].pc = "done" => iters'[i].out = sqs'[iters'[i].f].cache]_vars

(* a traversal that was started on a full cache of two records has ended   *)
C7_Witness ==
    \E i \in Iters :
       /\ iters[i].full0 /\ iters[i].pc = "done" /\ ~iters[i].intr
       /\ iters[i].kind = "list"
       /\ Len(iters[i].out) = 2
       /\ iters[i].out = sqs[iters[i].f].cache

(* C8: a chain operation gives a new facade that refers to the query state *)
(* of the facade it was called on and changes that state: every facade     *)
(* refers to one query state and renders the same query.                   *)
C8_ChainSharesQueryState ==
    \A f \in Facades, g \in Facades :
       (sqs[f].live /\ sqs[g].live) =>
          /\ sqs[f].q = sqs[g].q
          /\ build_query(query[sqs[f].q]) = build_query(query[sqs[g].q])

(* a chain operation has given a second facade and the root renders the    *)
(* sort the operation added                                                *)
C8_Witness ==
    /\ sqs[1].live /\ sqs[2].live
    /\ ~IsNone(query[sqs[1].q].sort)
    /\ "sort" \in DOMAIN build_query(query[sqs[1].q]).body

(* a call made through the facade g: a subscript, len(), iter() or next() *)
CallThrough(g) ==
    \/ \E k \in Indexes :
          /\ IsNone(last'.window) \/ last'.window = Some(<<k, k + 1>>)
          /\ GetItemInt(g, k)
    \/ \E a \in Starts, b \in Stops :
          /\ IsNone(last'.window) \/ last'.window = Some(<<SliceStart(a), SliceBound(a, b)>>)
          /\ GetItemSlice(g, a, b)
    \/ Length(g)
    \/ \E i \in Iters : IterStart(i, g)
    \/ \E i \in Iters : iters[i].f = g /\ GenNext(i)

(* C9: every facade has a cache and a cached count of its own: a fetch or  *)
(* len() changes the cache and the count of the facade it is made through  *)
(* and of no other facade, also of one that shares the query state.        *)
C9_CachesAreIndependent ==
    [][\A g \in Facades :
          (sqs'[g].cache # sqs[g].cache \/ sqs'[g].count # sqs[g].count) => CallThrough(g)]_vars

(* two facades share the query state; the one has fetched, the other has   *)
(* neither a cache nor a count                                             *)
C9_Witness ==
    /\ sqs[1].live /\ sqs[2].live /\ sqs[1].q = sqs[2].q
    /\ sqs[2].cache # <<>> /\ ~InSeq(NoneSlot, sqs[2].cache)
    /\ sqs[1].cache = <<>> /\ IsNone(sqs[1].count)
    /\ last.calls # <<>>

(* C10: len() runs exactly one backend execution and records the total     *)
(* when the query has not executed yet, and runs none when it has.         *)
C10_LenExecutesOnceIfNeeded ==
    [][\A f \in Facades :
          (Renders(query[sqs[f].q]) /\ Length(f))
          => IF IsNone(query[sqs[f].q].hit_count)
             THEN /\ Len(last'.calls) = 1
                  /\ sqs'[f].count = query'[sqs[f].q].hit_count
             ELSE last'.calls = <<>>]_vars

(* the subscripts C11 names: a negative integer, a range with a negative   *)
(* start or stop, a value that is neither an integer nor a range           *)
IsInvalid(k) ==
    \/ "other" \in DOMAIN k
    \/ "int" \in DOMAIN k /\ k.int < 0
    \/ "slice" \in DOMAIN k /\ \E i \in {1, 2} : ~IsNone(k.slice[i]) /\ Val(k.slice[i]) < 0

(* C11: a subscript that is a negative integer, a range with a negative    *)
(* start or stop, or neither an integer nor a range raises; the call that  *)
(* raises issues no backend request and changes neither a cache, a cached  *)
(* count, nor the query state.                                             *)
C11_InvalidSubscriptFailsClean ==
    [][/\ \A k \in Subscripts : IsInvalid(k) <=> ~IsNone(check_subscript(k))
       /\ last'.exc \in {Some("AssertionError"), Some("Exception")} =>
             /\ last'.calls = <<>>
             /\ query' = query
             /\ sqs' = sqs]_vars

(* s[-1] raised on a facade whose cache holds a record *)
C11_Witness ==
    /\ last.op = Some([name |-> "getitem", arg |-> IntKey(-1)])
    /\ last.exc = Some("AssertionError")
    /\ \E f \in Facades : sqs[f].live /\ Len(sqs[f].cache) > 0 /\ sqs[f].cache[1] # NoneSlot

(* C20: get of an id the index does not hold and get while the backend     *)
(* fails both return None and do not raise; remove while the backend fails *)
(* returns None and does not raise; none of them changes a cache, a cached *)
(* count or the query state.                                               *)
C20_GetAndRemoveNeverRaise ==
    [][(~IsNone(last'.op) /\ Val(last'.op).name \in {"get", "remove"}) =>
          /\ IsNone(last'.exc)
          /\ last'.calls = <<>>
          /\ query' = query
          /\ sqs' = sqs
          /\ (~Val(last'.op).arg.up \/ Val(last'.op).arg.doc_id \notin 1..NDocs) =>
                last'.ret = Some(None)]_vars

(* get of an existing document returned None because the backend failed,   *)
(* on a facade whose cache holds a record                                  *)
C20_Witness ==
    /\ last.op = Some([name |-> "get", arg |-> [doc_id |-> 1, up |-> FALSE]])
    /\ last.ret = Some(None)
    /\ \E f \in Facades : sqs[f].live /\ Len(sqs[f].cache) > 0 /\ sqs[f].cache[1] # NoneSlot

(* the call the last step made, by name *)
Called(l, name) == ~IsNone(l.op) /\ Val(l.op).name = name

(* C12: build_query changes no attribute of the query state, and two calls *)
(* with no other call in between give the same outcome (the same rendered  *)
(* structure, or the same exception).                                      *)
C12_BuildIsPure ==
    [][Called(last', "build_query") =>
          /\ query' = query
          /\ Called(last, "build_query") => (last'.ret = last.ret /\ last'.exc = last.exc)]_vars

(* build_query called twice in a row on a query with a filter and raw params *)
C12_Witness ==
    /\ Called(last, "build_query")
    /\ last.again
    /\ ~IsNone(QueryOf(1).raw_params)
    /\ ~IsErr(Val(last.ret))
    /\ "min_score" \in DOMAIN Val(last.ret).body

(* C13: once a raw query is set, build_query returns exactly the raw query, *)
(* whatever else the query state holds.                                     *)
C13_RawQueryWins ==
    \A i \in Facades :
       ~IsNone(query[i].raw_query) => build_query(query[i]) = BuildOk(Val(query[i].raw_query))

(* a raw query set together with a function score and raw params *)
C13_Witness ==
    /\ ~IsNone(QueryOf(1).raw_query)
    /\ ~IsNone(QueryOf(1).function_score)
    /\ ~IsNone(QueryOf(1).raw_params)

(* C14: with a function score and no raw query, build_query returns a body *)
(* whose query is the function-score envelope: the given spec, wrapped     *)
(* around the base query.                                                  *)
C14_FunctionScoreRenders ==
    \A i \in Facades :
       (~IsNone(query[i].function_score) /\ IsNone(query[i].raw_query)) =>
          /\ ~IsErr(build_query(query[i]))
          /\ "function_score" \in DOMAIN build_query(query[i]).body["query"]
          /\ \A k \in DOMAIN Val(query[i].function_score) :
                build_query(query[i]).body["query"]["function_score"][k] = Val(query[i].function_score)[k]
          /\ build_query(query[i]).body["query"]["function_score"]["query"] =
                (IF IsNone(query[i].search_terms) THEN "match_all" :> EmptyDict
                 ELSE Val(query[i].search_terms))

(* the filter entry C15 gives for a criterion: ids, range, terms, term *)
FilterEntry(key, val) ==
    IF key = <<"ids">> THEN "ids" :> ("values" :> val)
    ELSE IF Len(key) = 2 /\ key[2] \in {"gt", "gte", "lt", "lte"} THEN "range" :> (key[1] :> (key[2] :> val))
    ELSE IF (Len(key) = 2 /\ key[2] = "in") \/ IsList(val) THEN "terms" :> (key[1] :> val)
    ELSE "term" :> (key[1] :> val)

Must(q) == IF IsNone(q.filter_and_terms) THEN <<>> ELSE Val(q.filter_and_terms)["must"]
Should(q) == IF IsNone(q.filter_or_terms) THEN <<>> ELSE Val(q.filter_or_terms)["should"]
(* the query renders its own filters: no raw query, and build_query returns *)
RendersFilters(q) == IsNone(q.raw_query) /\ Renders(q)
Last(seq) == seq[Len(seq)]

(* C15: the entry add_filter_and / add_filter_or adds for a criterion       *)
(* field or field__suffix is the ids filter for the key ids, else the range *)
(* filter for the suffixes gt, gte, lt, lte, else the terms filter for the  *)
(* suffix in or a list value, else the term filter on the field (also for   *)
(* an unrecognized suffix); it is the last entry of the rendered must /     *)
(* should list.                                                             *)
C15_FilterEntryByOperator ==
    [][/\ (Called(last', "add_filter_and") /\ Len(Val(last'.op).arg.key) <= 2) =>
             /\ IsNone(last'.exc)
             /\ Last(Must(QueryOf(1)')) = FilterEntry(Val(last'.op).arg.key, Val(last'.op).arg.val)
             /\ RendersFilters(QueryOf(1)') =>
                   Last(build_query(QueryOf(1)').body["filter"]["bool"]["must"])
                      = FilterEntry(Val(last'.op).arg.key, Val(last'.op).arg.val)
       /\ (Called(last', "add_filter_or") /\ Len(Val(last'.op).arg.key) <= 2) =>
             /\ IsNone(last'.exc)
             /\ Last(Should(QueryOf(1)')) = FilterEntry(Val(last'.op).arg.key, Val(last'.op).arg.val)
             /\ RendersFilters(QueryOf(1)') =>
                   Last(build_query(QueryOf(1)').body["filter"]["bool"]["should"])
                      = FilterEntry(Val(last'.op).arg.key, Val(last'.op).arg.val)]_vars

(* an AND criterion with an unrecognized suffix rendered as a term filter on *)
(* the field, after a range criterion                                        *)
C15_Witness ==
    /\ Called(last, "add_filter_and")
    /\ Val(last.op).arg.key = <<"price", "near">>
    /\ RendersFilters(QueryOf(1))
    /\ build_query(QueryOf(1)).body["filter"]["bool"]["must"]
          = <<"range" :> ("price" :> ("gte" :> Scalar("10"))), "term" :> ("price" :> Scalar("10"))>>

(* the combinators the rendered bool filter holds *)
Combinators(q) ==
    (IF IsNone(q.filter_and_terms) THEN {} ELSE {"must"})
    \cup (IF IsNone(q.filter_or_terms) THEN {} ELSE {"should"})

(* C16: add_filter_and appends its criterion to the must list and leaves    *)
(* the should list alone, add_filter_or appends to the should list and      *)
(* leaves the must list alone, no other call changes either; the rendered   *)
(* filter is one bool envelope that holds the must list when add_filter_and *)
(* was called and the should list when add_filter_or was called, both       *)
(* together when both were.                                                 *)
C16_MustAndShouldAccumulate ==
    [][/\ Must(QueryOf(1)') =
             (IF Called(last', "add_filter_and") /\ IsNone(last'.exc)
              THEN Append(Must(QueryOf(1)), FilterEntry(Val(last'.op).arg.key, Val(last'.op).arg.val))
              ELSE Must(QueryOf(1)))
       /\ Should(QueryOf(1)') =
             (IF Called(last', "add_filter_or") /\ IsNone(last'.exc)
              THEN Append(Should(QueryOf(1)), FilterEntry(Val(last'.op).arg.key, Val(last'.op).arg.val))
              ELSE Should(QueryOf(1)))
       /\ RendersFilters(QueryOf(1)') =>
             /\ ("filter" \in DOMAIN build_query(QueryOf(1)').body) = (Combinators(QueryOf(1)') # {})
             /\ Combinators(QueryOf(1)') # {} =>
                   /\ DOMAIN build_query(QueryOf(1)').body["filter"] = {"bool"}
                   /\ DOMAIN build_query(QueryOf(1)').body["filter"]["bool"] = Combinators(QueryOf(1)')
                   /\ \A k \in Combinators(QueryOf(1)') :
                         build_query(QueryOf(1)').body["filter"]["bool"][k]
                            = (IF k = "must" THEN Must(QueryOf(1)') ELSE Should(QueryOf(1)'))]_vars

(* two AND criteria and one OR criterion rendered together, the OR call made *)
(* before the last AND call                                                  *)
C16_Witness ==
    /\ Called(last, "add_filter_and")
    /\ RendersFilters(QueryOf(1))
    /\ Len(build_query(QueryOf(1)).body["filter"]["bool"]["must"]) = 2
    /\ build_query(QueryOf(1)).body["filter"]["bool"]["must"][1] = FilterEntry(<<"ids">>, List(<<"1", "2">>))
    /\ build_query(QueryOf(1)).body["filter"]["bool"]["must"][2] = FilterEntry(<<"tag">>, Scalar("10"))
    /\ "should" \in DOMAIN build_query(QueryOf(1)).body["filter"]["bool"]
    /\ Len(build_query(QueryOf(1)).body["filter"]["bool"]["should"]) = 1

(* the facet-filter entry C17 gives for a criterion: range, terms, term *)
FacetFilterEntry(key, val) ==
    IF Len(key) = 2 /\ key[2] \in {"gt", "gte", "lt", "lte"} THEN "range" :> (key[1] :> (key[2] :> val))
    ELSE IF (Len(key) = 2 /\ key[2] = "in") \/ IsList(val) THEN "terms" :> (key[1] :> val)
    ELSE "term" :> (key[1] :> val)

FacetFilters(q, field) ==
    IF IsNone(q.facets) \/ field \notin DOMAIN Val(q.facets) THEN <<>>
    ELSE IF "facet_filter" \notin DOMAIN Val(q.facets)[field] THEN <<>>
    ELSE Val(q.facets)[field]["facet_filter"]["and"]

FacetTerms(q, field) ==
    IF IsNone(q.facets) \/ field \notin DOMAIN Val(q.facets) THEN "field" :> field
    ELSE Val(q.facets)[field]["terms"]

(* C17: add_term_facet_filter appends to the facet's own facet_filter.and   *)
(* list the entry the operator-suffix rule of add_filter_and gives (range   *)
(* for gt, gte, lt, lte; terms for in or a list value; term otherwise); the *)
(* facet is created when it does not exist, and an existing facet keeps its *)
(* options and the filters attached before.                                 *)
C17_FacetFilterParsesLikeFilter ==
    [][(Called(last', "add_term_facet_filter") /\ Len(Val(last'.op).arg.key) <= 2) =>
          /\ FacetFilters(QueryOf(1)', Val(last'.op).arg.field) =
                Append(FacetFilters(QueryOf(1), Val(last'.op).arg.field),
                       FacetFilterEntry(Val(last'.op).arg.key, Val(last'.op).arg.val))
          /\ FacetTerms(QueryOf(1)', Val(last'.op).arg.field) = FacetTerms(QueryOf(1), Val(last'.op).arg.field)
          /\ \A other \in FacetFields \ {Val(last'.op).arg.field} :
                /\ FacetFilters(QueryOf(1)', other) = FacetFilters(QueryOf(1), other)
                /\ FacetTerms(QueryOf(1)', other) = FacetTerms(QueryOf(1), other)]_vars

(* C18: once the mlt mode is on, every backend request a call issues goes  *)
(* to the mlt endpoint, none to the search endpoint.                       *)
C18_MltUsesSimilarityEndpoint ==
    [][QueryOf(1).mlt_query =>
          \A c \in 1..Len(last'.calls) : last'.calls[c].endpoint = "mlt"]_vars

(* C19 as stated: facet_counts and get_suggestions issue one execution on  *)
(* an unexecuted query, and a call repeated right after issues no request  *)
(* and returns the same value.                                             *)
C19_ExecutesOnFirstAccessOnly ==
    [][(Called(last', "facet_counts") \/ Called(last', "get_suggestions")) =>
          /\ ~has_run(QueryOf(1)) => Len(last'.calls) = 1
          /\ last'.again => (last'.calls = <<>> /\ last'.ret = last.ret)]_vars

(* a call that finds nothing recorded: one execution that records the      *)
(* structure when the query renders; when build_query raises, the KeyError *)
(* with no request and the query state as it was                           *)
ExecutesOrRaises(field) ==
    IF Renders(QueryOf(1))
    THEN /\ Len(last'.calls) = 1
         /\ IsNone(last'.exc)
         /\ last'.ret = Some(QueryOf(1)'[field])
         /\ has_run(QueryOf(1)')
    ELSE /\ last'.calls = <<>>
         /\ last'.exc = Some("KeyError")
         /\ query' = query

(* C19, amended: facet_counts executes when no facet counts are recorded,   *)
(* that is on the first access after construction or reset only;            *)
(* get_suggestions executes whenever no suggestions are recorded, which is  *)
(* on the first access and on every later call as long as the response      *)
(* carried no suggestion section.  A call that finds its structure recorded *)
(* issues no request and returns it.  A call that finds none recorded       *)
(* issues exactly one request when the query renders, and when build_query  *)
(* raises it raises the KeyError, issues no request and changes nothing.    *)
C19_ExecutesWhileNotRecorded ==
    [][/\ Called(last', "facet_counts") =>
             IF ~IsNone(QueryOf(1).facet_counts)
             THEN last'.calls = <<>> /\ IsNone(last'.exc) /\ last'.ret = Some(QueryOf(1).facet_counts)
             ELSE ExecutesOrRaises("facet_counts") /\ (Renders(QueryOf(1)) => ~IsNone(QueryOf(1)'.facet_counts))
       /\ (Called(last', "facet_counts") /\ last'.again /\ IsNone(last.exc)) =>
             (last'.calls = <<>> /\ last'.ret = last.ret)
       /\ Called(last', "get_suggestions") =>
             IF ~IsNone(QueryOf(1).suggestions)
             THEN last'.calls = <<>> /\ IsNone(last'.exc) /\ last'.ret = Some(QueryOf(1).suggestions)
             ELSE ExecutesOrRaises("suggestions")]_vars

(* get_suggestions called twice in a row on a query without a suggestion:  *)
(* the second call executed again                                          *)
C19_Witness ==
    /\ Called(last, "get_suggestions")
    /\ last.again
    /\ Len(last.calls) = 1
    /\ last.ret = Some(None)

(* the fields of a Query that hold what an execution has brought back *)
ExecutionResults == {"results", "hit_count", "facet_counts", "suggestions"}

(* C21: reset() clears the hit list, the total, the facet counts and the   *)
(* suggestions of the query, keeps every parameter of the query (search    *)
(* text, filters, sort, facets, function score, raw query, raw params,     *)
(* params, offset, size, mlt settings) and so keeps the rendered query.    *)
C21_ResetKeepsParameters ==
    [][\A f \in Facades :
          Reset(f) =>
             /\ \A k \in ExecutionResults : QueryOf(f)'[k] = None
             /\ \A k \in (DOMAIN QueryOf(f)) \ ExecutionResults : QueryOf(f)'[k] = QueryOf(f)[k]
             /\ build_query(QueryOf(f)') = build_query(QueryOf(f))]_vars

(* a query with a facet has filled a slot by a fetch at offset 1 and has    *)
(* been reset: the results are gone, the offset and the facet are kept      *)
C21_Witness ==
    /\ Len(sqs[1].cache) > 0
    /\ IsNone(query[1].results) /\ IsNone(query[1].hit_count)
    /\ IsNone(query[1].function_score)
    /\ ~IsNone(query[1].facets)
    /\ query[1].offset = 1 /\ query[1].size = 1
    /\ last.calls = <<>>

(* C22: add_sort keeps the order and the number of its arguments: a field  *)
(* with the prefix "-" is rendered as {field without the prefix: "desc"},  *)
(* any other field as the bare name, and build_query puts that list under  *)
(* "sort"; ["-price", "title"] gives [{"price": "desc"}, "title"].         *)
C22_SortKeepsArgumentOrder ==
    [][Called(last', "add_sort") =>
          LET args == Val(last'.op).arg
              q == QueryOf(1)'
          IN  /\ ~IsNone(q.sort)
              /\ Len(Val(q.sort)) = Len(args)
              /\ \A i \in 1..Len(args) :
                    Val(q.sort)[i] = IF Head(args[i]) = "-"
                                     THEN [dict |-> (Tail(args[i]) :> "desc")]
                                     ELSE [str |-> args[i]]
              /\ RendersFilters(q) => build_query(q).body["sort"] = Val(q.sort)
              /\ args = <<<<"-", "price">>, <<"title">>>>
                    => Val(q.sort) = <<[dict |-> (<<"price">> :> "desc")], [str |-> <<"title">>]>>]_vars

(* add_sort(["title", "-price"]) has been called on a query that renders,  *)
(* after an earlier add_sort: the descending entry comes second            *)
C22_Witness ==
    /\ Called(last, "add_sort")
    /\ Val(last.op).arg = <<<<"title">>, <<"-", "price">>>>
    /\ nops >= 2
    /\ RendersFilters(QueryOf(1))
    /\ build_query(QueryOf(1)).body["sort"] = <<[str |-> <<"title">>], [dict |-> (<<"price">> :> "desc")]>>

(* the names of the identity fields of a record *)
Reserved == {"index_name", "doc_type", "pk", "score"}
PayloadOf(hit) == IF "fields" \in DOMAIN hit THEN hit.fields ELSE hit.source

(* C23: a record built from a hit has the index name of the facade and the *)
(* type, id and score of the hit as index_name, doc_type, pk and score,    *)
(* whatever the payload holds under these names; every other key of the    *)
(* payload is a field of the record with the value of the payload, and the *)
(* record has no other field.                                              *)
C23_IdentityFieldsWin ==
    (Called(last, "post_process_results") /\ ~IsNone(last.ret) /\ Val(last.op).arg.process_results)
    => LET hits == Val(last.op).arg.results
           recs == Val(last.ret)
       IN  /\ Len(recs) = Len(hits)
           /\ \A i \in 1..Len(hits) :
                 /\ recs[i]["index_name"] = "content"
                 /\ recs[i]["doc_type"] = hits[i].type
                 /\ recs[i]["pk"] = hits[i].id
                 /\ recs[i]["score"] = hits[i].score
                 /\ DOMAIN recs[i] = Reserved \cup DOMAIN PayloadOf(hits[i])
                 /\ \A k \in (DOMAIN PayloadOf(hits[i])) \ Reserved : recs[i][k] = PayloadOf(hits[i])[k]

(* a record has been built from a payload that has "pk" and "score" of its  *)
(* own and a title: the record has the id of the hit and the title          *)
C23_Witness ==
    /\ Called(last, "post_process_results") /\ ~IsNone(last.ret) /\ Val(last.op).arg.process_results
    /\ {"pk", "score", "title"} \subseteq DOMAIN PayloadOf(Val(last.op).arg.results[1])
    /\ Val(last.ret)[1]["pk"] = Val(last.op).arg.results[1].id
    /\ Val(last.ret)[1]["pk"] # PayloadOf(Val(last.op).arg.results[1])["pk"]
    /\ Val(last.ret)[1]["title"] = 0

(* C24: the suggestions computed from a suggest section have one entry per *)
(* distinct term of the configured field, and each term of the section is  *)
(* mapped to the text of its first candidate, or to None when it has no    *)
(* candidate.                                                              *)
C24_TermMapsToFirstCandidate ==
    (Called(last, "process_suggestions") /\ ~IsNone(last.ret) /\ ~IsNone(Val(last.op).arg))
    => LET raw == Val(Val(last.op).arg)[QueryOf(1).params["suggest_field"]]
           out == Val(last.ret)
       IN  /\ ~IsNone(out)
           /\ DOMAIN Val(out) = {raw[i].text : i \in 1..Len(raw)}
           /\ \A i \in 1..Len(raw) :
                 Val(out)[raw[i].text] = IF Len(raw[i].options) > 0
                                         THEN Some(raw[i].options[1].text) ELSE None

(* a section of three entries for two distinct terms, one with two          *)
(* candidates and one with none, has been processed                         *)
C24_Witness ==
    /\ Called(last, "process_suggestions") /\ ~IsNone(last.ret) /\ ~IsNone(Val(last.op).arg)
    /\ Len(Val(Val(last.op).arg)["title"]) = 3
    /\ DOMAIN Val(Val(last.ret)) = {"teh", "xq"}
    /\ Val(Val(last.ret))["teh"] = Some("the")
    /\ Val(Val(last.ret))["xq"] = None

(* the step is a next() of the generator i *)
GenStep(i) ==
    /\ iters[i].kind = "gen" /\ Active(iters[i])
    /\ iters'[i].pc # iters[i].pc \/ iters'[i].pos # iters[i].pos

(* C25: on one result set whose query is not changed, a fetch (by a        *)
(* subscript or by the generator) that brings k > 0 hits from the offset   *)
(* start puts their records into the slots [start, start + k) in the order *)
(* returned and leaves every other slot as it was, None in a cache that is *)
(* allocated by this fetch; a fetch that brings no hit leaves the cache    *)
(* unchanged and ends the traversal that made it.  So a filled slot always *)
(* holds the record of the hit of its rank.                                *)
C25_FetchWritesItsWindow ==
    [][OnlyRoot' =>
          LET recs == AllRecords(query'[1])
              old == sqs[1].cache
              new == sqs'[1].cache
          IN  /\ \A p \in 1..Len(new) : new[p] # NoneSlot => (p <= Len(recs) /\ new[p] = recs[p])
              /\ (last'.calls # <<>> /\ (~IsNone(last'.window) \/ \E i \in Iters : GenStep(i)))
                 => LET c == last'.calls[1]
                        k == Len(PySlice(recs, c.from, c.from + c.size))
                    IN  /\ Len(last'.calls) = 1
                        /\ ~IsNone(last'.window)
                              => c.from = Val(last'.window)[1]
                                 /\ c.from + c.size = Val(last'.window)[2]
                        /\ IF k > 0
                           THEN /\ Len(new) = Len(recs)
                                /\ \A p \in 1..Len(recs) :
                                      new[p] = IF c.from < p /\ p <= c.from + k THEN recs[p]
                                               ELSE IF old = <<>> THEN NoneSlot ELSE old[p]
                           ELSE /\ new = old
                                /\ \A i \in Iters :
                                      GenStep(i) => /\ iters'[i].pc = "done"
                                                    /\ last'.exc \in raise_StopIteration]_vars

(* a fetch for the window [1, 2) has filled the second slot of a cache      *)
(* whose first slot stays unfilled                                          *)
C25_Witness ==
    /\ OnlyRoot
    /\ last.window = Some(<<1, 2>>)
    /\ Len(last.calls) = 1
    /\ Len(sqs[1].cache) = 2
    /\ sqs[1].cache[1] = NoneSlot
    /\ sqs[1].cache[2] = AllRecords(query[1])[2]

(* C26: a traversal of the result set during which other calls were made   *)
(* on the same result set (subscripts that fill later slots, another       *)
(* traversal) has yielded, when it ends, every one of the N hits of the    *)
(* query in rank order; how the end reaches the caller is left open.       *)
C26_InterleavedTraversalYieldsAllHits ==
    [][\A i \in Iters :
          (/\ OnlyIndexed'
           /\ Active(iters[i])
           /\ iters'[i].pc = "done"
           /\ iters'[i].intr
           /\ last'.exc \in raise_StopIteration)
          => iters'[i].out = AllRecords(query'[sqs[iters[i].f].q])]_vars

(* C27: on a facade made by a chain operation, len() gives the total of    *)
(* the facade's own query and a traversal that runs to its end without     *)
(* another call in between yields the records of that query, also when the *)
(* ancestor had executed the query before the chain operation.             *)
C27_DerivedFacadeCountsOwnQuery ==
    [][\A f \in Facades \ {1} :
          /\ (Length(f) /\ IsNone(last'.exc))
                => sqs'[f].count = Some(Len(AllRecords(QueryOf(f)')))
          /\ \A i \in Iters :
                (/\ iters[i].f = f /\ Active(iters[i])
                 /\ iters'[i].pc = "done" /\ ~iters'[i].intr
                 /\ last'.exc \in raise_StopIteration)
                => iters'[i].out = AllRecords(QueryOf(f)')]_vars

(* the hit lists the root facade's query has had: that of the query it was *)
(* created with, and that of the query as the chain operation has left it  *)
RootHitLists ==
    {AllRecords(q) : q \in {QueryInit, add_search_query(QueryInit, "x", None),
                            add_search_query(QueryInit, "zzz", None)}}

(* C28: a subscript on the root facade that fetches after a chain          *)
(* operation has changed the shared query leaves the root's cache          *)
(* consistent: an allocated cache has the length that len() of the root    *)
(* gives, and the filled slots hold the records of one hit list, each the  *)
(* record of its rank.                                                     *)
C28_AncestorCacheStaysConsistent ==
    [][(/\ ~OnlyRoot
        /\ ~IsNone(last'.window)
        /\ IsNone(last'.exc)
        /\ Renders(QueryOf(1)')
        /\ \/ \E k \in Indexes : GetItemInt(1, k)
           \/ \E a \in Starts, b \in Stops : GetItemSlice(1, a, b))
       => LET cache == sqs'[1].cache
          IN  /\ Len(cache) > 0 => Len(cache) = LenOf(1)'
              /\ \E recs \in RootHitLists \cup {AllRecords(QueryOf(1)')} :
                    \A p \in 1..Len(cache) :
                       cache[p] # NoneSlot => (p <= Len(recs) /\ cache[p] = recs[p])]_vars

(* C29: on one result set whose query has executed and whose cache is full *)
(* (a record in each of the N slots; no slot when N = 0), a subscript      *)
(* issues no backend call.                                                 *)
C29_FullCacheSubscriptsWithoutCall ==
    [][(OnlyRoot' /\ CacheFull(1)) => IsNone(last'.window)]_vars

(* the batches of document type d have all been run *)
TypeDone(d) == d < indexer.started \/ (d = indexer.started /\ Idle)

(* C30: for every document type the (start, end) that do_update is called  *)
(* with are batches [start, min(start + batch_size, total)) of the rows    *)
(* [0, total), no two of them share a row, and when the type is done every *)
(* row is in exactly one of them, run by the command or by workers alike;  *)
(* a row never causes more than one index call when it is active and none  *)
(* when it is not, never more than one remove call when it is not active   *)
(* and remove is set and none otherwise; when the type is done the active  *)
(* rows have caused exactly one index call each and the inactive rows,     *)
(* with remove set, exactly one remove call each.                          *)
C30_BatchesCoverRowsOnce ==
    \A d \in 1..Len(doc_types) :
       LET qs == queryset(doc_types[d], indexer.table)
           total == Len(qs)
           hs == indexer.handed[d]
           index_calls(r) == IF qs[r].published THEN 1 ELSE 0
           remove_calls(r) == IF ~qs[r].published /\ indexer.remove THEN 1 ELSE 0
       IN  /\ \A i \in 1..Len(hs) :
                 /\ 0 <= hs[i][1] /\ hs[i][1] < total
                 /\ hs[i][2] = Min(hs[i][1] + indexer.batch_size, total)
           /\ \A i \in 1..Len(hs), j \in 1..Len(hs) :
                 i # j => (hs[i][2] <= hs[j][1] \/ hs[j][2] <= hs[i][1])
           /\ \A r \in 1..total :
                 /\ indexer.calls[d][qs[r].pk].index <= index_calls(r)
                 /\ indexer.calls[d][qs[r].pk].remove <= remove_calls(r)
           /\ \A pk \in 1..MaxRows :
                 (\A r \in 1..total : qs[r].pk # pk)
                 => indexer.calls[d][pk] = [index |-> 0, remove |-> 0]
           /\ TypeDone(d) =>
                 /\ \A r \in 0..(total - 1) :
                       Cardinality({i \in 1..Len(hs) : hs[i][1] <= r /\ r < hs[i][2]}) = 1
                 /\ \A r \in 1..total :
                       /\ indexer.calls[d][qs[r].pk].index = index_calls(r)
                       /\ indexer.calls[d][qs[r].pk].remove = remove_calls(r)

(* two workers have run the two batches of three rows, the last of one row, *)
(* and do_update was called with the second batch first; a row that is not  *)
(* active has been removed and both types are done                          *)
C30_Witness ==
    /\ indexer.workers = 2 /\ indexer.batch_size = 2 /\ indexer.remove
    /\ Len(indexer.table) = 3
    /\ indexer.started = Len(doc_types) /\ Idle
    /\ indexer.handed[2] = <<<<2, 3>>, <<0, 2>>>>
    /\ \E pk \in 1..MaxRows : indexer.calls[2][pk] = [index |-> 0, remove |-> 1]
    /\ \E pk \in 1..MaxRows : indexer.calls[2][pk] = [index |-> 1, remove |-> 0]
    /\ \E pk \in 1..MaxRows : indexer.calls[1][pk] = [index |-> 1, remove |-> 0]

====
